---------------------------- MODULE Spec2Model ----------------------------
(***************************************************************************)
(* HireSense recruitment pipeline: the dashboard's process_candidates, the *)
(* supervisor that runs the seven agent scripts in order, the agents' file *)
(* hand-off and score arithmetic, and the SQLite selection store.          *)
(*                                                                         *)
(* Texts are sequences of one-character strings.  Scores, probabilities    *)
(* and thresholds are integers counting units of 0.00001 (1.0 is 100000).  *)
(***************************************************************************)
EXTENDS Integers, Sequences, FiniteSets, TLC

-----------------------------------------------------------------------------
(* Text primitives (Python str methods and the regular expression \w+).    *)

LowerLetters ==
    {"a","b","c","d","e","f","g","h","i","j","k","l","m",
     "n","o","p","q","r","s","t","u","v","w","x","y","z"}

UpperOf ==
    [c \in LowerLetters |->
        CASE c = "a" -> "A" [] c = "b" -> "B" [] c = "c" -> "C" [] c = "d" -> "D"
          [] c = "e" -> "E" [] c = "f" -> "F" [] c = "g" -> "G" [] c = "h" -> "H"
          [] c = "i" -> "I" [] c = "j" -> "J" [] c = "k" -> "K" [] c = "l" -> "L"
          [] c = "m" -> "M" [] c = "n" -> "N" [] c = "o" -> "O" [] c = "p" -> "P"
          [] c = "q" -> "Q" [] c = "r" -> "R" [] c = "s" -> "S" [] c = "t" -> "T"
          [] c = "u" -> "U" [] c = "v" -> "V" [] c = "w" -> "W" [] c = "x" -> "X"
          [] c = "y" -> "Y" [] c = "z" -> "Z"]

UpperLetters == {UpperOf[c] : c \in LowerLetters}

Digits == {"0","1","2","3","4","5","6","7","8","9"}

\* str.lower() on one character
LowerChar(c) ==
    IF c \in UpperLetters THEN CHOOSE l \in LowerLetters : UpperOf[l] = c ELSE c

\* str.lower()
Lower(s) == [i \in 1..Len(s) |-> LowerChar(s[i])]

\* needle in haystack (Python's substring test)
Contains(hay, needle) ==
    \E i \in 0..(Len(hay) - Len(needle)) :
        \A j \in 1..Len(needle) : hay[i + j] = needle[j]

\* str.endswith
EndsWith(s, suffix) ==
    /\ Len(s) >= Len(suffix)
    /\ \A j \in 1..Len(suffix) : s[Len(s) - Len(suffix) + j] = suffix[j]

Whitespace == {" "}

\* str.strip() leaves something
StripNonEmpty(s) == \E i \in 1..Len(s) : s[i] \notin Whitespace


WordChars == LowerLetters \cup UpperLetters \cup Digits \cup {"_"}

\* the first position from i on at which a run of characters in cls
\* (neg = FALSE) or outside cls (neg = TRUE) ends, as a set of one element
RunStops(s, i, cls, neg) ==
    {k \in i..(Len(s) + 1) :
        /\ k = Len(s) + 1 \/ (s[k] \in cls) = neg
        /\ \A m \in i..(k - 1) : (s[m] \in cls) # neg}

RECURSIVE RunsFrom(_, _, _, _, _)
\* the maximal runs of characters that are in cls (neg = FALSE) or outside
\* cls (neg = TRUE), scanning s from position i with the run cur open; the
\* scan goes on to the character that ends the run in one step
RunsFrom(s, i, cur, cls, neg) ==
    CHOOSE runs \in
        { IF stop > Len(s)
          THEN (IF cur \o SubSeq(s, i, stop - 1) = <<>> THEN <<>>
                ELSE <<cur \o SubSeq(s, i, stop - 1)>>)
          ELSE (IF cur \o SubSeq(s, i, stop - 1) = <<>> THEN <<>>
                ELSE <<cur \o SubSeq(s, i, stop - 1)>>)
               \o RunsFrom(s, stop + 1, <<>>, cls, neg)
          : stop \in RunStops(s, i, cls, neg) } : TRUE

\* re.findall(r'[cls]+', s)
FindAll(s, cls) == RunsFrom(s, 1, <<>>, cls, FALSE)

\* the non-empty pieces of re.split(r'[cls]+', s)
SplitOn(s, cls) == RunsFrom(s, 1, <<>>, cls, TRUE)

\* re.findall(r'\w+', s)
FindWords(s) == FindAll(s, WordChars)

Range(f) == {f[i] : i \in DOMAIN f}

RECURSIVE SumSeq(_)
SumSeq(q) == IF q = <<>> THEN 0 ELSE Head(q) + SumSeq(Tail(q))

RECURSIVE SumOver(_, _)
\* sum of the function f over the finite set S
SumOver(f, S) ==
    IF S = {} THEN 0
    ELSE LET x == CHOOSE x \in S : TRUE IN f[x] + SumOver(f, S \ {x})

Min(a, b) == IF a <= b THEN a ELSE b

Abs(a) == IF a < 0 THEN -a ELSE a

\* the first place from i on where needle is found in hay, as a set of at
\* most one element
FirstFound(hay, needle, i) ==
    {k \in i..(Len(hay) - Len(needle) + 1) :
        /\ \A j \in 1..Len(needle) : hay[k + j - 1] = needle[j]
        /\ \A m \in i..(k - 1) :
              \E j \in 1..Len(needle) : hay[m + j - 1] # needle[j]}

RECURSIVE CountFrom(_, _, _)
\* str.count: non-overlapping occurrences of needle in hay from position i
CountFrom(hay, needle, i) ==
    SumOver([k \in FirstFound(hay, needle, i) |->
                1 + CountFrom(hay, needle, k + Len(needle))],
            FirstFound(hay, needle, i))

StrCount(hay, needle) == CountFrom(hay, needle, 1)

-----------------------------------------------------------------------------
(* jd_optimizer.py: readability grade                                      *)

Vowels == {"a","e","i","o","u","y"}

\* variant: a word without a letter counts one syllable too
count_syllables_FloorAlways(word) ==
    LET w == SelectSeq(Lower(word), LAMBDA c : c \in LowerLetters)
        count == Len(FindAll(w, Vowels))
        count2 == IF EndsWith(w, <<"e">>) /\ count > 1 THEN count - 1 ELSE count
    IN  IF count2 > 0 THEN count2 ELSE 1

\* JDExtractorOptimizer.count_syllables
count_syllables(word) ==
    LET w == SelectSeq(Lower(word), LAMBDA c : c \in LowerLetters)
        count == Len(FindAll(w, Vowels))
        count2 == IF EndsWith(w, <<"e">>) /\ count > 1 THEN count - 1 ELSE count
    IN  IF w = <<>> THEN 0
        ELSE IF count2 > 0 THEN count2 ELSE 1

\* JDExtractorOptimizer.flesch_kincaid_grade, as the exact fraction num/den
flesch_kincaid_grade(text) ==
    LET sentences == SelectSeq(SplitOn(text, {".", "!", "?"}), StripNonEmpty)
        total_sentences == IF sentences # <<>> THEN Len(sentences) ELSE 1
        words == FindWords(text)
        total_words == IF words # <<>> THEN Len(words) ELSE 1
        total_syllables == SumSeq([i \in 1..Len(words) |-> count_syllables(words[i])])
    IN  [num |-> 39 * total_words * total_words
                 + 1180 * total_syllables * total_sentences
                 - 1559 * total_sentences * total_words,
         den |-> 100 * total_sentences * total_words]

\* self.grade_level_threshold = 10.0
grade_level_threshold == 10

-----------------------------------------------------------------------------
(* bias_agent.py: lexicon match and anonymization                          *)

BIASED_TERMS ==
    { <<"n","i","n","j","a">>, <<"r","o","c","k","s","t","a","r">>,
      <<"g","u","r","u">>, <<"a","g","g","r","e","s","s","i","v","e">>,
      <<"w","h","i","z">>, <<"b","o","m","b","a","s","t","i","c">>,
      <<"a","l","p","h","a">>, <<"d","o","m","i","n","a","n","t">> }

\* variant: the terms are looked for in the text itself, not among its words
detect_bias_Substring(text) ==
    {term \in BIASED_TERMS : Contains(Lower(text), term)}

\* detect_bias: the flagged terms (the list's order is the set's iteration order)
detect_bias(text) ==
    LET words == FindWords(Lower(text))
    IN  {term \in BIASED_TERMS : term \in Range(words)}

REDACTED == <<"[","R","E","D","A","C","T","E","D","]">>

\* text[:n] and text[n:] with Python's clamping of n >= 0
Prefix(s, n) == SubSeq(s, 1, Min(n, Len(s)))
Suffix(s, n) == SubSeq(s, Min(n, Len(s)) + 1, Len(s))

\* variant: the entities are taken in document order, lowest offset first
SortedByStartDesc_Ascending(ents) == ents

RECURSIVE SortedByStartDesc(_)
\* sorted(ents, key=start_char, reverse=True); equal keys keep their order
SortedByStartDesc(ents) ==
    IF ents = <<>> THEN <<>>
    ELSE LET k == CHOOSE k \in 1..Len(ents) :
                    /\ \A j \in 1..Len(ents) : ents[j].start_char <= ents[k].start_char
                    /\ \A j \in 1..(k - 1) : ents[j].start_char < ents[k].start_char
             rest == [j \in 1..(Len(ents) - 1) |-> IF j < k THEN ents[j] ELSE ents[j + 1]]
         IN  <<ents[k]>> \o SortedByStartDesc(rest)

RECURSIVE RedactAll(_, _)
RedactAll(anonymized, ents) ==
    IF ents = <<>> THEN anonymized
    ELSE LET ent == Head(ents)
             next == IF ent.label_ = "PERSON"
                     THEN Prefix(anonymized, ent.start_char) \o REDACTED
                          \o Suffix(anonymized, ent.end_char)
                     ELSE anonymized
         IN  RedactAll(next, Tail(ents))

\* anonymize_text(text, nlp), ents being nlp(text).ents
anonymize_text(text, ents) == RedactAll(text, SortedByStartDesc(ents))

-----------------------------------------------------------------------------
(* persona_agent.py: persona fit.  Probabilities and scores are counted in *)
(* units of 0.00001, so 1.0 is 100000.                                     *)

SOFT_SKILLS_KEYWORDS ==
    { <<"t","e","a","m">>, <<"c","o","l","l","a","b","o","r","a","t","i","v","e">>,
      <<"l","e","a","d","e","r">>, <<"i","n","n","o","v","a","t","i","v","e">>,
      <<"a","d","a","p","t","a","b","l","e">>,
      <<"c","o","m","m","u","n","i","c","a","t","i","v","e">>,
      <<"p","r","o","a","c","t","i","v","e">> }

\* sum(text_lower.count(word) for word in SOFT_SKILLS_KEYWORDS)
keyword_count(cv_text) ==
    SumOver([w \in SOFT_SKILLS_KEYWORDS |-> StrCount(Lower(cv_text), w)],
            SOFT_SKILLS_KEYWORDS)

\* min(keyword_count / 20.0, 1.0)
soft_score(cv_text) == Min(keyword_count(cv_text) * 5000, 100000)

\* variant: the two weights are exchanged
compute_persona_fit_Swapped(cv_text, sentiment) ==
    LET positive_score == IF sentiment.label = "POSITIVE" THEN sentiment.score ELSE 0
    IN  (3 * positive_score + 7 * soft_score(cv_text)) \div 10

\* compute_persona_fit, sentiment being sentiment_pipeline(cv_text)[0]
compute_persona_fit(cv_text, sentiment) ==
    LET positive_score == IF sentiment.label = "POSITIVE" THEN sentiment.score ELSE 0
    IN  (7 * positive_score + 3 * soft_score(cv_text)) \div 10

-----------------------------------------------------------------------------
(* Table cells.  A text cell that is empty in the CSV is read back by      *)
(* pandas as the float NaN, which is not a str.                            *)

NaN == <<"NaN">>

\* df[col] = values on one row: the new cells replace cells of the same name
SetCols(row, new) == new @@ row

IsStr(v) == v # NaN

-----------------------------------------------------------------------------
(* feedback_agent.py: composite score and rule-based adjustment            *)

STRONG_MATCH == <<"s","t","r","o","n","g"," ","m","a","t","c","h">>

\* the two values of feedback_adjust: 0.05 and -0.02
ADJUST_UP == 5000
ADJUST_DOWN == -2000

\* variant: the explanation is searched as it is, without lower()
feedback_adjust_CaseSensitive(explanation) ==
    IF IsStr(explanation) /\ Contains(explanation, STRONG_MATCH)
    THEN ADJUST_UP
    ELSE ADJUST_DOWN

\* adjust_candidate_scores.feedback_adjust
feedback_adjust(explanation) ==
    IF IsStr(explanation) /\ Contains(Lower(explanation), STRONG_MATCH)
    THEN ADJUST_UP
    ELSE ADJUST_DOWN

\* 0.6 * df['grade_score'] + 0.4 * df['persona_fit_score']
composite_of(grade_score, persona_fit_score) ==
    (6 * grade_score + 4 * persona_fit_score) \div 10

\* variant: the composite is written over grade_score as well
AdjustRow_InPlace(row) ==
    LET composite == composite_of(row["grade_score"], row["persona_fit_score"])
        adjustment == feedback_adjust(row["explanation"])
    IN  SetCols(row, [grade_score |-> composite,
                      composite_score |-> composite,
                      feedback_adjustment |-> adjustment,
                      updated_score |-> composite + adjustment])

\* the three columns adjust_candidate_scores adds to one row
AdjustRow(row) ==
    LET composite == composite_of(row["grade_score"], row["persona_fit_score"])
        adjustment == feedback_adjust(row["explanation"])
    IN  SetCols(row, [composite_score |-> composite,
                          feedback_adjustment |-> adjustment,
                          updated_score |-> composite + adjustment])

-----------------------------------------------------------------------------
(* sql_agent.py: the Candidates table and the threshold query              *)

\* the columns of CREATE TABLE Candidates
CANDIDATES_COLUMNS ==
    {"candidate_id", "candidate_name", "grade_score", "extracted_entities",
     "cv_text_preview", "cv_bias_flags", "cv_anonymized", "persona_fit_score",
     "explanation", "composite_score", "feedback_adjustment", "updated_score"}

\* variant: the query filters on composite_score, the score before feedback
query_selected_candidates_Composite(rows, score_threshold) ==
    {row \in rows : row["composite_score"] >= score_threshold}

\* variant: WHERE updated_score > ?
query_selected_candidates_Strict(rows, score_threshold) ==
    {row \in rows : row["updated_score"] > score_threshold}

\* SQLiteMemoryAgent.query_selected_candidates on the rows of the table
query_selected_candidates(rows, score_threshold) ==
    {row \in rows : row["updated_score"] >= score_threshold}

\* def query_selected_candidates(self, score_threshold=0.65)
QUERY_DEFAULT_THRESHOLD == 65000

\* parser.add_argument("--threshold", type=float, default=0.3, ...)
CLI_DEFAULT_THRESHOLD == 30000

-----------------------------------------------------------------------------
(* The documents of the model and the external capabilities.  The models   *)
(* behind embed, extractEntities, classifySentiment and rephrase are       *)
(* opaque; each is a fixed function of its input text.                     *)

TextA == <<"P","r","o","a","c","t","i","v","e"," ","t","e","a","m"," ","l","e","a","d">>
TextB == <<"A","g","g","r","e","s","s","i","v","e"," ","g","u","r","u"," ","B","o","b">>

JDSimple == <<"S","e","e","k","i","n","g"," ","a"," ","n","i","n","j","a",".">>
JDComplex ==
    <<"C","o","l","l","a","b","o","r","a","t","i","v","e"," ",
      "p","r","o","a","c","t","i","v","e">>
JDRephrased == <<"H","i","r","e"," ","a"," ","d","e","v",".">>

\* CV texts longer than the preview: a text of 200 characters, as many as
\* the preview keeps (19, a blank, a word of 179, a blank), and texts that
\* continue it, one with a biased term and a soft-skill keyword, the other
\* without any
TextLongBase == TextA \o <<" ">> \o [k \in 1..179 |-> "x"] \o <<" ">>
TextLongNinja == TextLongBase \o <<"n","i","n","j","a",","," ","c","o","l","l","a","b","o","r","a","t","i","v","e">>
TextLongPlain == TextLongBase \o <<"a","n","d"," ","m","o","r","e">>
\* a long text with a biased term among its first 200 characters
TextLongEarly == <<"G","u","r","u","."," ">> \o TextLongBase

\* the CV files a user can put in a CV folder or upload
FileA == [name |-> <<"a",".","p","d","f">>, text |-> TextA, readable |-> TRUE]
FileB == [name |-> <<"B",".","T","X","T">>, text |-> TextB, readable |-> TRUE]
FileC == [name |-> <<"c",".","d","o","c">>, text |-> TextA, readable |-> TRUE]
FileE == [name |-> <<"e",".","p","d","f">>, text |-> <<>>, readable |-> TRUE]
FileU == [name |-> <<"u",".","t","x","t">>, text |-> TextB, readable |-> FALSE]
FileL == [name |-> <<"l",".","t","x","t">>, text |-> TextLongNinja, readable |-> TRUE]
FileM == [name |-> <<"m",".","t","x","t">>, text |-> TextLongPlain, readable |-> TRUE]
FileN == [name |-> <<"n",".","t","x","t">>, text |-> TextLongEarly, readable |-> TRUE]
\* a CV whose file name holds the phrase of the feedback rule, in capitals
FileS == [name |-> <<"S","t","r","o","n","g"," ","M","a","t","c","h",".","p","d","f">>,
          text |-> TextB, readable |-> TRUE]

\* the texts of the worked example: a job description and a CV
SCENARIO_JD ==
    <<"L","o","o","k","i","n","g"," ","f","o","r"," ","a"," ","p","r","o",
      "a","c","t","i","v","e",","," ","c","o","l","l","a","b","o","r","a",
      "t","i","v","e"," ","n","i","n","j","a"," ","d","e","v","e","l","o",
      "p","e","r">>
SCENARIO_CV ==
    <<"E","x","p","e","r","i","e","n","c","e","d"," ","t","e","a","m"," ",
      "l","e","a","d","e","r",","," ","p","r","o","a","c","t","i","v","e",
      " ","a","n","d"," ","c","o","l","l","a","b","o","r","a","t","i","v",
      "e">>

\* self.rephraser(prompt, ...)[0]['generated_text']; the paraphrase of the
\* worked example's job description keeps its words
Rephrase(jd_text) == IF jd_text = SCENARIO_JD THEN SCENARIO_JD ELSE JDRephrased

\* self.nlp(text).ents, in document order
NlpEnts(text) ==
    IF text = TextB
    THEN <<[start_char |-> 16, end_char |-> 19, label_ |-> "PERSON"]>>
    ELSE <<>>

\* cosine_similarity(self.embedder.encode([cv_text]), jd_embedding)[0][0]
Similarity(cv_text, reference_jd) ==
    IF cv_text = TextA THEN (IF reference_jd = JDSimple THEN 80000 ELSE 60000)
    ELSE IF cv_text = TextB THEN -40000
    ELSE IF cv_text = TextLongNinja THEN 70000
    ELSE IF cv_text = TextLongPlain THEN 50000
    ELSE 10000

\* sentiment_pipeline(cv_text)[0]
Sentiment(cv_text) ==
    IF cv_text = TextA THEN [label |-> "POSITIVE", score |-> 90000]
    ELSE IF cv_text = TextB THEN [label |-> "NEGATIVE", score |-> 95000]
    ELSE [label |-> "POSITIVE", score |-> 50000]

-----------------------------------------------------------------------------
(* Files.  A file system is a function from the paths that exist, each a   *)
(* pair <<directory, name>>, to the file's content.                        *)

JD_CSV == "Dataset/job_description.csv"
CV_FOLDER == "Dataset/CVs1"
OPTIMIZED_JDS == "optimized_jds.csv"
CV_GRADING_RESULTS == "cv_grading_results.csv"
JD_BIAS_FAIRNESS == "jd_bias_fairness.csv"
CV_BIAS_FAIRNESS == "cv_bias_fairness.csv"
PERSONA_FIT_RESULTS == "persona_fit_results.csv"
EXPLAINABILITY_RESULTS == "explainability_results.csv"
FEEDBACK_ADJUSTED_RESULTS == "feedback_adjusted_results.csv"
FINAL_SELECTED == "final_selected_candidates.csv"
MEMORY_DB == "memory.db"

\* a CSV file written by DataFrame.to_csv(index=False): header and rows
Csv(cols, rows) == [kind |-> "csv", cols |-> cols, rows |-> rows]

\* a folder of CV files: file name -> content
Folder(files) ==
    [kind |-> "dir",
     files |-> [n \in {u.name : u \in files} |->
                   LET u == CHOOSE u \in files : u.name = n
                   IN  [text |-> u.text, readable |-> u.readable]]]

\* pd.read_csv succeeds: the file is there and has a header line (a file
\* written from a DataFrame without columns has none: EmptyDataError)
CanReadCsv(f, p) == p \in DOMAIN f /\ f[p].kind = "csv" /\ f[p].cols # {}

WriteFile(f, p, content) == (p :> content) @@ f

\* what one agent process did: the file system it leaves, its exit code,
\* and the paths it opened for reading and for writing
Done(f, code, reads, writes) ==
    [fs |-> f, code |-> code, reads |-> reads, writes |-> writes]

\* a relative path is resolved against the process's working directory
Rel(c, name) == <<c, name>>

\* a hard-coded absolute path /Users/.../agents/<name>: h is the directory
\* that path leads to on the machine
AbsPath(h, name) == <<h, name>>

-----------------------------------------------------------------------------
(* The argparse defaults of the agent scripts, for a process with working  *)
(* directory c.                                                            *)

JdOptimizerArgs(c, h) ==
    [jd_csv |-> Rel(c, JD_CSV), output_csv |-> Rel(c, OPTIMIZED_JDS)]

CvGraderArgs(c, h) ==
    [jd_csv |-> AbsPath(h, OPTIMIZED_JDS), cv_folder |-> AbsPath(h, CV_FOLDER),
     output_csv |-> Rel(c, CV_GRADING_RESULTS)]

BiasAgentArgs(c, h) ==
    [jd_input |-> AbsPath(h, OPTIMIZED_JDS), cv_input |-> AbsPath(h, CV_GRADING_RESULTS),
     jd_output |-> Rel(c, JD_BIAS_FAIRNESS), cv_output |-> Rel(c, CV_BIAS_FAIRNESS)]

PersonaAgentArgs(c, h) ==
    [input_csv |-> AbsPath(h, CV_BIAS_FAIRNESS), output_csv |-> Rel(c, PERSONA_FIT_RESULTS)]

ExplainabilityAgentArgs(c, h) ==
    [input_csv |-> AbsPath(h, PERSONA_FIT_RESULTS),
     output_csv |-> Rel(c, EXPLAINABILITY_RESULTS)]

FeedbackAgentArgs(c, h) ==
    [input_csv |-> AbsPath(h, EXPLAINABILITY_RESULTS),
     output_csv |-> Rel(c, FEEDBACK_ADJUSTED_RESULTS)]

\* variant: --threshold defaults to the 0.65 of query_selected_candidates
SqlAgentArgs_QueryDefault(c, h) ==
    [db_path |-> Rel(c, MEMORY_DB), candidate_csv |-> Rel(c, FEEDBACK_ADJUSTED_RESULTS),
     threshold |-> QUERY_DEFAULT_THRESHOLD, output_csv |-> Rel(c, FINAL_SELECTED)]

SqlAgentArgs(c, h) ==
    [db_path |-> Rel(c, MEMORY_DB), candidate_csv |-> Rel(c, FEEDBACK_ADJUSTED_RESULTS),
     threshold |-> CLI_DEFAULT_THRESHOLD, output_csv |-> Rel(c, FINAL_SELECTED)]

\* supervisor.py: --final_selected
SupervisorArgs(c, h) == [final_selected |-> Rel(c, FINAL_SELECTED)]

-----------------------------------------------------------------------------
(* jd_optimizer.py                                                         *)

JD_REQUIRED_COLS == {"Job Title", "Job Description"}

JD_OUTPUT_COLS ==
    {"Job Title", "Job Description", "optimized_jd", "grade_level", "extracted_entities"}

\* JDExtractorOptimizer.optimize_jd
optimize_jd(jd_text) ==
    LET grade_level == flesch_kincaid_grade(jd_text)
    IN  [optimized_text |->
             IF grade_level.num > grade_level_threshold * grade_level.den
             THEN Rephrase(jd_text)
             ELSE jd_text,
         grade_level |-> grade_level]

\* one row of process_jd_file's output
OptimizeJdRow(row) ==
    LET jd == row["Job Description"]
        o == optimize_jd(jd)
    IN  ("Job Title" :> row["Job Title"]) @@ ("Job Description" :> jd)
        @@ [optimized_jd |-> o.optimized_text,
            grade_level |-> o.grade_level,
            extracted_entities |-> NlpEnts(jd)]

\* variant: the required columns are not checked, and a table without them
\* is written out as it is
JdOptimizerMain_NoValidation(f, ds, c, hard, up) ==
    LET jd_csv == JdOptimizerArgs(c, hard).jd_csv
        output_csv == JdOptimizerArgs(c, hard).output_csv
    IN  IF ~up THEN Done(f, 1, {}, {})
        ELSE IF ~CanReadCsv(f, jd_csv) THEN Done(f, 1, {jd_csv}, {})
        ELSE IF c \notin ds THEN Done(f, 1, {jd_csv}, {})
        ELSE IF ~(JD_REQUIRED_COLS \subseteq f[jd_csv].cols)
             THEN Done(WriteFile(f, output_csv, f[jd_csv]), 0, {jd_csv}, {output_csv})
        ELSE LET rows == f[jd_csv].rows
                 out == [i \in 1..Len(rows) |-> OptimizeJdRow(rows[i])]
             IN  Done(WriteFile(f, output_csv, Csv(JD_OUTPUT_COLS, out)),
                      0, {jd_csv}, {output_csv})

\* jd_optimizer.py run with no arguments in working directory c; up tells
\* whether the spaCy and T5 models load
JdOptimizerMain(f, ds, c, hard, up) ==
    LET jd_csv == JdOptimizerArgs(c, hard).jd_csv
        output_csv == JdOptimizerArgs(c, hard).output_csv
    IN  IF ~up THEN Done(f, 1, {}, {})
        ELSE IF ~CanReadCsv(f, jd_csv) THEN Done(f, 1, {jd_csv}, {})
        ELSE IF ~(JD_REQUIRED_COLS \subseteq f[jd_csv].cols) THEN Done(f, 1, {jd_csv}, {})
        ELSE IF c \notin ds THEN Done(f, 1, {jd_csv}, {})
        ELSE LET rows == f[jd_csv].rows
                 out == [i \in 1..Len(rows) |-> OptimizeJdRow(rows[i])]
             IN  Done(WriteFile(f, output_csv, Csv(JD_OUTPUT_COLS, out)),
                      0, {jd_csv}, {output_csv})

-----------------------------------------------------------------------------
(* cv_grader.py                                                            *)

DOT_PDF == <<".","p","d","f">>
DOT_TXT == <<".","t","x","t">>

\* "cv_text_preview": cv_text[:200]
PREVIEW_LEN == 200

GRADER_COLS ==
    {"candidate_filename", "grade_score", "extracted_entities", "cv_text_preview"}

\* the file is of a supported type and its text can be obtained
CvSupported(filename) ==
    EndsWith(Lower(filename), DOT_PDF) \/ EndsWith(Lower(filename), DOT_TXT)

\* the text process_cv_folder gets from one supported file: extract_text_from_pdf
\* gives "" when the PDF cannot be read
CvText(filename, file) ==
    IF EndsWith(Lower(filename), DOT_PDF)
    THEN (IF file.readable THEN file.text ELSE <<>>)
    ELSE file.text

\* variant: the text is not looked at before it is graded
CvYieldsRow_NoStrip(filename, file) ==
    /\ CvSupported(filename)
    /\ EndsWith(Lower(filename), DOT_PDF) \/ file.readable

\* the file yields a row: supported, readable (a TXT that cannot be read is
\* skipped), and with text left after strip()
CvYieldsRow(filename, file) ==
    /\ CvSupported(filename)
    /\ EndsWith(Lower(filename), DOT_PDF) \/ file.readable
    /\ StripNonEmpty(CvText(filename, file))

\* variant: the whole text is kept as the preview
GradeRow_FullPreview(filename, cv_text, reference_jd) ==
    [candidate_filename |-> filename,
     grade_score |-> Similarity(cv_text, reference_jd),
     extracted_entities |-> NlpEnts(cv_text),
     cv_text_preview |-> cv_text]

GradeRow(filename, cv_text, reference_jd) ==
    [candidate_filename |-> filename,
     grade_score |-> Similarity(cv_text, reference_jd),
     extracted_entities |-> NlpEnts(cv_text),
     cv_text_preview |-> Prefix(cv_text, PREVIEW_LEN)]

\* cv_grader.py run with no arguments in working directory c; hard is the
\* directory the hard-coded default paths lead to
CvGraderMain(f, ds, c, hard, up) ==
    LET jd_csv == CvGraderArgs(c, hard).jd_csv
        cv_folder == CvGraderArgs(c, hard).cv_folder
        output_csv == CvGraderArgs(c, hard).output_csv
    IN  IF ~up THEN Done(f, 1, {}, {})
        ELSE IF ~CanReadCsv(f, jd_csv) THEN Done(f, 1, {jd_csv}, {})
        ELSE IF "optimized_jd" \notin f[jd_csv].cols \/ f[jd_csv].rows = <<>>
             THEN Done(f, 1, {jd_csv}, {})
        ELSE IF ~(cv_folder \in DOMAIN f /\ f[cv_folder].kind = "dir")
             THEN Done(f, 1, {jd_csv, cv_folder}, {})
        ELSE IF c \notin ds THEN Done(f, 1, {jd_csv, cv_folder}, {})
        ELSE LET reference_jd == f[jd_csv].rows[1]["optimized_jd"]
                 files == f[cv_folder].files
                 results == {GradeRow(n, CvText(n, files[n]), reference_jd) :
                                n \in {m \in DOMAIN files : CvYieldsRow(m, files[m])}}
                 cols == IF results = {} THEN {} ELSE GRADER_COLS
             IN  Done(WriteFile(f, output_csv, Csv(cols, results)),
                      0, {jd_csv, cv_folder}, {output_csv})

-----------------------------------------------------------------------------
(* bias_agent.py                                                           *)

RECURSIVE ListRepr(_)
\* str() of a Python list of strings, as to_csv writes a list-valued cell
ListRepr(terms) ==
    IF terms = {} THEN <<>>
    ELSE LET t == CHOOSE t \in terms : TRUE
             rest == terms \ {t}
         IN  <<"'">> \o t \o <<"'">>
             \o (IF rest = {} THEN <<>> ELSE <<",", " ">>) \o ListRepr(rest)

FlagsCell(flags) == <<"[">> \o ListRepr(flags) \o <<"]">>

JD_BIAS_KEEP ==
    {"Job Title", "Job Description", "optimized_jd", "grade_level",
     "extracted_entities", "jd_bias_flags", "jd_anonymized"}

BiasJdRow(row) ==
    [c \in JD_BIAS_KEEP |->
        IF c = "jd_bias_flags" THEN FlagsCell(detect_bias(row["optimized_jd"]))
        ELSE IF c = "jd_anonymized"
             THEN anonymize_text(row["optimized_jd"], NlpEnts(row["optimized_jd"]))
        ELSE row[c]]

BiasCvRow(row) ==
    SetCols(row,
            [cv_bias_flags |-> FlagsCell(detect_bias(row["cv_text_preview"])),
             cv_anonymized |-> anonymize_text(row["cv_text_preview"],
                                              NlpEnts(row["cv_text_preview"]))])

\* BiasFairnessMonitorAgent.process_jd
BiasProcessJd(f, ds, jd_input, jd_output) ==
    IF ~CanReadCsv(f, jd_input) THEN Done(f, 1, {jd_input}, {})
    ELSE IF "optimized_jd" \notin f[jd_input].cols THEN Done(f, 1, {jd_input}, {})
    ELSE IF ~(JD_BIAS_KEEP \ {"jd_bias_flags", "jd_anonymized"} \subseteq f[jd_input].cols)
         THEN Done(f, 1, {jd_input}, {})
    ELSE IF jd_output[1] \notin ds THEN Done(f, 1, {jd_input}, {})
    ELSE LET rows == f[jd_input].rows
             out == [i \in 1..Len(rows) |-> BiasJdRow(rows[i])]
         IN  Done(WriteFile(f, jd_output, Csv(JD_BIAS_KEEP, out)),
                  0, {jd_input}, {jd_output})

\* BiasFairnessMonitorAgent.process_cv
BiasProcessCv(f, ds, cv_input, cv_output) ==
    IF ~CanReadCsv(f, cv_input) THEN Done(f, 1, {cv_input}, {})
    ELSE IF "cv_text_preview" \notin f[cv_input].cols THEN Done(f, 1, {cv_input}, {})
    ELSE IF cv_output[1] \notin ds THEN Done(f, 1, {cv_input}, {})
    ELSE Done(WriteFile(f, cv_output,
                        Csv(f[cv_input].cols \cup {"cv_bias_flags", "cv_anonymized"},
                            {BiasCvRow(row) : row \in f[cv_input].rows})),
              0, {cv_input}, {cv_output})

\* bias_agent.py run with no arguments in working directory c
BiasAgentMain(f, ds, c, hard, up) ==
    IF ~up THEN Done(f, 1, {}, {})
    ELSE LET args == BiasAgentArgs(c, hard)
             jd == BiasProcessJd(f, ds, args.jd_input, args.jd_output)
         IN  IF jd.code # 0 THEN jd
             ELSE LET cv == BiasProcessCv(jd.fs, ds, args.cv_input, args.cv_output)
                  IN  Done(cv.fs, cv.code, jd.reads \cup cv.reads, jd.writes \cup cv.writes)

-----------------------------------------------------------------------------
(* persona_agent.py                                                        *)

\* persona_agent.py run with no arguments in working directory c
PersonaAgentMain(f, ds, c, hard, up) ==
    LET input_csv == PersonaAgentArgs(c, hard).input_csv
        output_csv == PersonaAgentArgs(c, hard).output_csv
    IN  IF ~up THEN Done(f, 1, {}, {})
        ELSE IF ~CanReadCsv(f, input_csv) THEN Done(f, 1, {input_csv}, {})
        ELSE IF "cv_text_preview" \notin f[input_csv].cols THEN Done(f, 1, {input_csv}, {})
        ELSE IF c \notin ds THEN Done(f, 1, {input_csv}, {})
        ELSE Done(WriteFile(f, output_csv,
                    Csv(f[input_csv].cols \cup {"persona_fit_score"},
                        {SetCols(row, [persona_fit_score |->
                                    compute_persona_fit(row["cv_text_preview"],
                                                        Sentiment(row["cv_text_preview"]))]) :
                            row \in f[input_csv].rows})),
                  0, {input_csv}, {output_csv})

-----------------------------------------------------------------------------
(* explainability_agent.py                                                 *)

DigitChar(d) ==
    CASE d = 0 -> "0" [] d = 1 -> "1" [] d = 2 -> "2" [] d = 3 -> "3" [] d = 4 -> "4"
      [] d = 5 -> "5" [] d = 6 -> "6" [] d = 7 -> "7" [] d = 8 -> "8" [] d = 9 -> "9"

RECURSIVE DecimalDigits(_)
DecimalDigits(n) ==
    IF n < 10 THEN <<DigitChar(n)>>
    ELSE Append(DecimalDigits(n \div 10), DigitChar(n % 10))

\* f"{abs(value):.2f}" for value = num/den in units of 0.00001
Format2f(num, den) ==
    LET hundredths == (2 * Abs(num) + 1000 * den) \div (2 * 1000 * den)
    IN  DecimalDigits(hundredths \div 100) \o <<".">>
        \o <<DigitChar((hundredths % 100) \div 10), DigitChar(hundredths % 10)>>

\* the text generate_explanations builds for one feature
FeaturePhrase(feature, num, den) ==
    feature \o <<" ">>
    \o (IF num >= 0 THEN <<"i","n","c","r","e","a","s","e","s">>
                    ELSE <<"d","e","c","r","e","a","s","e","s">>)
    \o <<" ","s","c","o","r","e"," ","b","y"," ">> \o Format2f(num, den) \o <<";"," ">>

\* generate_explanations for one row of the table rows.  The attribution of
\* the fitted linear model is coef * (x - mean(x)), coef being (0.6, 0.4).
Explanation(row, rows) ==
    LET n == Cardinality(rows)
        sum_g == SumOver([r \in rows |-> r["grade_score"]], rows)
        sum_p == SumOver([r \in rows |-> r["persona_fit_score"]], rows)
    IN  <<"C","a","n","d","i","d","a","t","e"," ","'">> \o row["candidate_filename"]
        \o <<"'",":"," ">>
        \o FeaturePhrase(<<"g","r","a","d","e","_","s","c","o","r","e">>,
                         6 * (n * row["grade_score"] - sum_g), 10 * n)
        \o FeaturePhrase(<<"p","e","r","s","o","n","a","_","f","i","t","_","s","c","o","r","e">>,
                         4 * (n * row["persona_fit_score"] - sum_p), 10 * n)

EXPLAIN_REQUIRED_COLS == {"candidate_filename", "grade_score", "persona_fit_score"}

\* explainability_agent.py run with no arguments in working directory c
ExplainabilityAgentMain(f, ds, c, hard, up) ==
    LET input_csv == ExplainabilityAgentArgs(c, hard).input_csv
        output_csv == ExplainabilityAgentArgs(c, hard).output_csv
    IN  IF ~CanReadCsv(f, input_csv) THEN Done(f, 1, {input_csv}, {})
        ELSE IF ~(EXPLAIN_REQUIRED_COLS \subseteq f[input_csv].cols)
             THEN Done(f, 1, {input_csv}, {})
        ELSE IF f[input_csv].rows = {} THEN Done(f, 1, {input_csv}, {})
        ELSE IF c \notin ds THEN Done(f, 1, {input_csv}, {})
        ELSE LET rows == f[input_csv].rows
             IN  Done(WriteFile(f, output_csv,
                        Csv(f[input_csv].cols \cup {"explanation"},
                            {SetCols(row, [explanation |-> Explanation(row, rows)]) :
                                row \in rows})),
                      0, {input_csv}, {output_csv})

-----------------------------------------------------------------------------
(* feedback_agent.py                                                       *)

FEEDBACK_REQUIRED_COLS == {"grade_score", "persona_fit_score", "explanation"}

FEEDBACK_NEW_COLS == {"composite_score", "feedback_adjustment", "updated_score"}

\* adjust_candidate_scores(input_csv, output_csv)
adjust_candidate_scores(f, ds, input_csv, output_csv) ==
    IF ~CanReadCsv(f, input_csv) THEN Done(f, 1, {input_csv}, {})
    ELSE IF ~(FEEDBACK_REQUIRED_COLS \subseteq f[input_csv].cols)
         THEN Done(f, 1, {input_csv}, {})
    ELSE IF output_csv[1] \notin ds THEN Done(f, 1, {input_csv}, {})
    ELSE Done(WriteFile(f, output_csv,
                Csv(f[input_csv].cols \cup FEEDBACK_NEW_COLS,
                    {AdjustRow(row) : row \in f[input_csv].rows})),
              0, {input_csv}, {output_csv})

\* feedback_agent.py run with no arguments in working directory c
FeedbackAgentMain(f, ds, c, hard, up) ==
    adjust_candidate_scores(f, ds, FeedbackAgentArgs(c, hard).input_csv,
                            FeedbackAgentArgs(c, hard).output_csv)

-----------------------------------------------------------------------------
(* State                                                                   *)

VARIABLES
    fs,            \* the file system: path -> content
    dirs,          \* the directories that exist
    scripts,       \* directory -> the agent scripts present in it
    hard,          \* the directory the hard-coded /Users/... paths lead to
    down,          \* the agents whose model cannot be loaded on the machine
    cwd,           \* working directory of the dashboard process
    pc,            \* run -> where the run's caller is
    kind,          \* run -> "dash" (process_candidates) or "cli" (supervisor.py)
    req,           \* run -> the arguments of process_candidates
    original_dir,  \* run -> process_candidates' local original_dir
    result,        \* run -> what process_candidates returned
    sup,           \* run -> the supervisor process of the run
    procs,         \* the live agent processes
    hist           \* run -> what the run did so far (history)

vars == <<fs, dirs, scripts, hard, down, cwd, pc, kind, req, original_dir, result,
          sup, procs, hist>>

Runs == {1, 2}

\* the directory tempfile.TemporaryDirectory() makes for a request
TempDir(r) == IF r = 1 THEN "T1" ELSE "T2"

\* self.agents_dir, and the directory the dashboard is started in
AGENTS_DIR == "AGENTS"
HOME_DIR == "HOME"

\* where the hard-coded paths lead on a machine that has no such directory
NOWHERE == "NOWHERE"

Dirs == {AGENTS_DIR, HOME_DIR, "T1", "T2"}

\* Config.AGENT_FILES
AGENT_FILES ==
    {"jd_optimizer.py", "cv_grader.py", "bias_agent.py", "persona_agent.py",
     "explainability_agent.py", "feedback_agent.py", "sql_agent.py", "supervisor.py"}

\* the list agents of supervisor.main
agents ==
    <<"jd_optimizer.py", "cv_grader.py", "bias_agent.py", "persona_agent.py",
      "explainability_agent.py", "feedback_agent.py", "sql_agent.py">>

\* the most CV files one request uploads
MaxUploads == 1

UploadCatalogue == {FileA}

UploadChoices == {u \in SUBSET UploadCatalogue : Cardinality(u) <= MaxUploads}

JobDescriptions == {JDComplex}

\* the largest top_n asked for (the dashboard's slider starts at 1)
MaxTopN == 1

TopNChoices == 1..MaxTopN

\* pd.DataFrame({'Job Title': [...], 'Job Description': [...]})
JdTable(job_title, job_description) ==
    Csv(JD_REQUIRED_COLS,
        << ("Job Title" :> job_title) @@ ("Job Description" :> job_description) >>)

\* a job-description table without the description column
JdTableNoDescription(job_title) ==
    Csv({"Job Title"}, << ("Job Title" :> job_title) >>)

\* what the agents directory may hold before a run
InputGood ==
    (<<AGENTS_DIR, JD_CSV>> :> JdTable("dev", JDSimple))
        @@ (<<AGENTS_DIR, CV_FOLDER>> :> Folder({FileA, FileB}))

InputNoDescription ==
    (<<AGENTS_DIR, JD_CSV>> :> JdTableNoDescription("dev"))
        @@ (<<AGENTS_DIR, CV_FOLDER>> :> Folder({FileA, FileB}))

InputNoCandidates ==
    (<<AGENTS_DIR, JD_CSV>> :> JdTable("dev", JDSimple))
        @@ (<<AGENTS_DIR, CV_FOLDER>> :> Folder({FileC, FileE, FileU}))

\* the agents directory as an earlier supervisor run on InputGood has left
\* it, stage by stage, that run having been stopped before its select stage
AfterJdOptimizer ==
    JdOptimizerMain(InputGood, {AGENTS_DIR}, AGENTS_DIR, AGENTS_DIR, TRUE).fs
AfterCvGrader ==
    CvGraderMain(AfterJdOptimizer, {AGENTS_DIR}, AGENTS_DIR, AGENTS_DIR, TRUE).fs
AfterBiasAgent ==
    BiasAgentMain(AfterCvGrader, {AGENTS_DIR}, AGENTS_DIR, AGENTS_DIR, TRUE).fs
AfterPersonaAgent ==
    PersonaAgentMain(AfterBiasAgent, {AGENTS_DIR}, AGENTS_DIR, AGENTS_DIR, TRUE).fs
AfterExplainabilityAgent ==
    ExplainabilityAgentMain(AfterPersonaAgent, {AGENTS_DIR}, AGENTS_DIR, AGENTS_DIR,
                            TRUE).fs
InputEarlierRun ==
    FeedbackAgentMain(AfterExplainabilityAgent, {AGENTS_DIR}, AGENTS_DIR, AGENTS_DIR,
                      TRUE).fs

\* the same after an earlier run whose CV folder held b.TXT alone, a
\* candidate whose updated_score is below the default threshold
WeakAfterJdOptimizer ==
    WriteFile(AfterJdOptimizer, <<AGENTS_DIR, CV_FOLDER>>, Folder({FileB}))
WeakAfterCvGrader ==
    CvGraderMain(WeakAfterJdOptimizer, {AGENTS_DIR}, AGENTS_DIR, AGENTS_DIR, TRUE).fs
WeakAfterBiasAgent ==
    BiasAgentMain(WeakAfterCvGrader, {AGENTS_DIR}, AGENTS_DIR, AGENTS_DIR, TRUE).fs
WeakAfterPersonaAgent ==
    PersonaAgentMain(WeakAfterBiasAgent, {AGENTS_DIR}, AGENTS_DIR, AGENTS_DIR, TRUE).fs
WeakAfterExplainabilityAgent ==
    ExplainabilityAgentMain(WeakAfterPersonaAgent, {AGENTS_DIR}, AGENTS_DIR, AGENTS_DIR,
                            TRUE).fs
InputWeakRun ==
    FeedbackAgentMain(WeakAfterExplainabilityAgent, {AGENTS_DIR}, AGENTS_DIR,
                      AGENTS_DIR, TRUE).fs

\* the machines the program is started on: the files of the agents
\* directory, the scripts in it, and where the hard-coded paths lead
Machine(f, present, h, d) ==
    [fs |-> f, scripts |-> present, hard |-> h, down |-> d]

Machines ==
    { Machine(<< >>, AGENT_FILES, NOWHERE, {}),
      Machine(InputGood, AGENT_FILES, AGENTS_DIR, {}),
      Machine(InputGood, AGENT_FILES, AGENTS_DIR, {2}),
      Machine(InputGood, AGENT_FILES \ {"bias_agent.py"}, AGENTS_DIR, {}),
      Machine(InputNoDescription, AGENT_FILES, AGENTS_DIR, {}),
      Machine(InputNoCandidates, AGENT_FILES, AGENTS_DIR, {}),
      Machine(InputEarlierRun, AGENT_FILES, AGENTS_DIR, {}),
      Machine(InputEarlierRun, AGENT_FILES, AGENTS_DIR, {1}) }

NoSup == [pc |-> "none", i |-> 0, cwd |-> HOME_DIR]

NoHist ==
    [started |-> <<>>, io |-> <<>>, printed |-> FALSE, copied |-> FALSE,
     inserted |-> 0, selected |-> <<>>, ranked |-> <<>>, ingested |-> {},
     overlapped |-> FALSE]

Pending == [kind |-> "pending"]
None == [kind |-> "None"]

\* the program on machine m, before anything is run
InitOn(m) ==
    /\ fs = m.fs
    /\ scripts = [d \in Dirs |-> IF d = AGENTS_DIR THEN m.scripts ELSE {}]
    /\ hard = m.hard
    /\ down = m.down
    /\ dirs = {AGENTS_DIR, HOME_DIR}
    /\ cwd = HOME_DIR
    /\ pc = [r \in Runs |-> "idle"]
    /\ kind = [r \in Runs |-> "none"]
    /\ req = [r \in Runs |-> [job_description |-> <<>>, uploaded_files |-> {},
                              top_n |-> 0]]
    /\ original_dir = [r \in Runs |-> HOME_DIR]
    /\ result = [r \in Runs |-> Pending]
    /\ sup = [r \in Runs |-> NoSup]
    /\ procs = {}
    /\ hist = [r \in Runs |-> NoHist]

Init == \E m \in Machines : InitOn(m)

-----------------------------------------------------------------------------
(* app.py: HireSenseDashboard                                              *)

\* the files of directory d are gone
RemoveTree(f, d) == [p \in {q \in DOMAIN f : q[1] # d} |-> f[p]]

\* setup_workspace: the files it writes into temp_dir
SetupFiles(f, temp_dir, job_title, job_description, uploaded_files) ==
    WriteFile(WriteFile(f, <<temp_dir, JD_CSV>>, JdTable(job_title, job_description)),
              <<temp_dir, CV_FOLDER>>, Folder(uploaded_files))

\* setup_workspace: the agent files it copies, and whether it returns True
CopiedAgentFiles(present) == AGENT_FILES \cap present

\* variant: only the script that is started is looked for
SetupOk_SupervisorOnly(present) == "supervisor.py" \in present

SetupOk(present) == AGENT_FILES \subseteq present

\* variant: the directory is made with mkdtemp and never removed
WorkspaceGone_Kept(ds, temp_dir) == ds

\* the with-block is left: TemporaryDirectory removes temp_dir
WorkspaceGone(ds, temp_dir) == ds \ {temp_dir}

\* eval(row['cv_bias_flags']) gives a list; its length
RECURSIVE CountChar(_, _)
CountChar(s, c) ==
    IF s = <<>> THEN 0
    ELSE (IF Head(s) = c THEN 1 ELSE 0) + CountChar(Tail(s), c)

EvalListLen(cell) == CountChar(cell, "'") \div 2

\* the text is a Python list display of quoted strings: [], ['a'], ['a', 'b']
IsListDisplay(cell) ==
    /\ Len(cell) >= 2
    /\ cell[1] = "[" /\ cell[Len(cell)] = "]"
    /\ LET inner == SubSeq(cell, 2, Len(cell) - 1)
           items == SplitOn(inner, {",", " "})
       IN  /\ \A i \in 1..Len(inner) : inner[i] \notin {"[", "]"}
           /\ \A k \in 1..Len(items) :
                 /\ Len(items[k]) >= 2
                 /\ items[k][1] = "'" /\ items[k][Len(items[k])] = "'"
                 /\ CountChar(items[k], "'") = 2
           /\ CountChar(inner, ",") = (IF items = <<>> THEN 0 ELSE Len(items) - 1)

\* eval(row['cv_bias_flags']) raises (SyntaxError, NameError) on a text
\* that is no such display
EvalRaises(cell) == ~IsListDisplay(cell)

\* one entry of the results list of process_candidates
ProjectRow(row) ==
    [candidate |-> IF "candidate_id" \in DOMAIN row THEN row["candidate_id"]
                   ELSE row["candidate_filename"],
     match_score |-> row["updated_score"] * 100,
     cv_score |-> row["grade_score"] * 100,
     persona_score |-> row["persona_fit_score"] * 100,
     bias_free_score |-> IF IsStr(row["cv_bias_flags"])
                         THEN (100000 - EvalListLen(row["cv_bias_flags"]) * 10000) * 100
                         ELSE 100 * 100000,
     explanation |-> row["explanation"]]

\* the orders DataFrame.nlargest(n, 'updated_score') can give: the n rows
\* with the largest updated_score, largest first
NLargest(rows, n) ==
    LET k == Min(n, Cardinality(rows))
    IN  {q \in [1..k -> rows] :
            /\ \A i, j \in 1..k : i < j =>
                  q[i] # q[j] /\ q[i]["updated_score"] >= q[j]["updated_score"]
            /\ \A row \in rows \ Range(q) :
                  \A i \in 1..k : q[i]["updated_score"] >= row["updated_score"]}

\* `with tempfile.TemporaryDirectory() as temp_dir:` of a new request
Submit(r) ==
    /\ pc[r] = "idle"
    /\ \A q \in Runs : q < r => pc[q] # "idle"
    /\ \A q \in Runs \ {r} : kind[q] # "cli"
    /\ \E jd \in JobDescriptions, ups \in UploadChoices, n \in TopNChoices :
          req' = [req EXCEPT ![r] = [job_description |-> jd, uploaded_files |-> ups,
                                     top_n |-> n]]
    /\ kind' = [kind EXCEPT ![r] = "dash"]
    /\ dirs' = dirs \cup {TempDir(r)}
    /\ pc' = [pc EXCEPT ![r] = "setup"]
    /\ UNCHANGED <<fs, scripts, hard, down, cwd, original_dir, result, sup, procs, hist>>

\* self.setup_workspace(temp_dir, ...), and `return None` when it fails
SetupWorkspace(r) ==
    /\ pc[r] = "setup"
    /\ fs' = SetupFiles(fs, TempDir(r), "dev", req[r].job_description,
                        req[r].uploaded_files)
    /\ scripts' = [scripts EXCEPT ![TempDir(r)] = CopiedAgentFiles(scripts[AGENTS_DIR])]
    /\ IF SetupOk(scripts[AGENTS_DIR])
       THEN /\ pc' = [pc EXCEPT ![r] = "getcwd"]
            /\ UNCHANGED result
       ELSE /\ pc' = [pc EXCEPT ![r] = "cleanup"]
            /\ result' = [result EXCEPT ![r] = None]
    /\ UNCHANGED <<dirs, hard, down, cwd, kind, req, original_dir, sup, procs, hist>>

\* original_dir = os.getcwd()
Getcwd(r) ==
    /\ pc[r] = "getcwd"
    /\ original_dir' = [original_dir EXCEPT ![r] = cwd]
    /\ pc' = [pc EXCEPT ![r] = "chdir"]
    /\ UNCHANGED <<fs, dirs, scripts, hard, down, cwd, kind, req, result, sup, procs, hist>>

\* os.chdir(temp_dir)
Chdir(r) ==
    /\ pc[r] = "chdir"
    /\ cwd' = TempDir(r)
    /\ pc' = [pc EXCEPT ![r] = "spawn"]
    /\ UNCHANGED <<fs, dirs, scripts, hard, down, kind, req, original_dir, result, sup,
                   procs, hist>>

\* subprocess.run(["python", "supervisor.py"], check=True, ...): the child
\* starts in the working directory the dashboard process has at this moment
SpawnSupervisor(r) ==
    /\ pc[r] = "spawn"
    /\ IF "supervisor.py" \in scripts[cwd]
       THEN /\ sup' = [sup EXCEPT ![r] = [pc |-> "loop", i |-> 1, cwd |-> cwd]]
            /\ pc' = [pc EXCEPT ![r] = "wait"]
            /\ UNCHANGED result
       ELSE /\ result' = [result EXCEPT ![r] = None]
            /\ pc' = [pc EXCEPT ![r] = "finally"]
            /\ UNCHANGED sup
    /\ UNCHANGED <<fs, dirs, scripts, hard, down, cwd, kind, req, original_dir, procs, hist>>

\* subprocess.run returns, or raises CalledProcessError (`return None`)
SupervisorReturned(r) ==
    /\ pc[r] = "wait"
    /\ sup[r].pc \in {"exit0", "exit1"}
    /\ IF sup[r].pc = "exit0"
       THEN /\ pc' = [pc EXCEPT ![r] = "read"]
            /\ UNCHANGED result
       ELSE /\ pc' = [pc EXCEPT ![r] = "finally"]
            /\ result' = [result EXCEPT ![r] = None]
    /\ UNCHANGED <<fs, dirs, scripts, hard, down, cwd, kind, req, original_dir, sup, procs,
                   hist>>

\* "Read results" to `return results`; an exception raised on the way is
\* caught by `except Exception` (`return None`).  pd.read_csv raises on a
\* file without header, nlargest raises TypeError on the object-typed
\* column of a table without rows, eval raises on a cell that is not a
\* Python expression.
ReadResults(r) ==
    LET results_path == <<TempDir(r), FINAL_SELECTED>>
        target == <<AGENTS_DIR, FINAL_SELECTED>>
    IN  /\ pc[r] = "read"
        /\ pc' = [pc EXCEPT ![r] = "finally"]
        /\ IF results_path \in DOMAIN fs /\ CanReadCsv(fs, results_path)
           THEN LET final_results == fs[results_path].rows
                IN  IF final_results # {}
                    THEN \E ranked \in NLargest(final_results, req[r].top_n) :
                           IF \E i \in 1..Len(ranked) :
                                 /\ IsStr(ranked[i]["cv_bias_flags"])
                                 /\ EvalRaises(ranked[i]["cv_bias_flags"])
                           THEN /\ result' = [result EXCEPT ![r] = None]
                                /\ hist' = [hist EXCEPT ![r].ranked = <<final_results>>]
                                /\ UNCHANGED fs
                           ELSE /\ result' = [result EXCEPT ![r] =
                                      [kind |-> "list",
                                       rows |-> [i \in 1..Len(ranked) |->
                                                    ProjectRow(ranked[i])]]]
                                /\ fs' = WriteFile(fs, target, fs[results_path])
                                /\ hist' = [hist EXCEPT ![r].copied = TRUE,
                                                        ![r].ranked = <<final_results>>]
                    ELSE /\ result' = [result EXCEPT ![r] = None]
                         /\ hist' = [hist EXCEPT ![r].ranked = <<final_results>>]
                         /\ UNCHANGED fs
           ELSE /\ result' = [result EXCEPT ![r] = None]
                /\ UNCHANGED <<fs, hist>>
        /\ UNCHANGED <<dirs, scripts, hard, down, cwd, kind, req, original_dir, sup, procs>>

\* finally: os.chdir(original_dir); when that directory is gone the call
\* raises and the request returns None through `except Exception`
Finally(r) ==
    /\ pc[r] = "finally"
    /\ pc' = [pc EXCEPT ![r] = "cleanup"]
    /\ IF original_dir[r] \in dirs
       THEN /\ cwd' = original_dir[r]
            /\ UNCHANGED result
       ELSE /\ result' = [result EXCEPT ![r] = None]
            /\ UNCHANGED cwd
    /\ UNCHANGED <<fs, dirs, scripts, hard, down, kind, req, original_dir, sup, procs, hist>>

\* leaving the with-block: TemporaryDirectory.cleanup()
Cleanup(r) ==
    /\ pc[r] = "cleanup"
    /\ dirs' = WorkspaceGone(dirs, TempDir(r))
    /\ fs' = IF TempDir(r) \in dirs' THEN fs ELSE RemoveTree(fs, TempDir(r))
    /\ scripts' = IF TempDir(r) \in dirs' THEN scripts
                  ELSE [scripts EXCEPT ![TempDir(r)] = {}]
    /\ pc' = [pc EXCEPT ![r] = "returned"]
    /\ UNCHANGED <<hard, down, cwd, kind, req, original_dir, result, sup, procs, hist>>

-----------------------------------------------------------------------------
(* supervisor.py                                                           *)

\* variant: the child is started without waiting for it (Popen), and the
\* loop goes on at once
RunAgentStarted_NoWait(s) ==
    IF s.i < Len(agents) THEN [s EXCEPT !.pc = "loop", !.i = s.i + 1]
    ELSE [s EXCEPT !.pc = "final"]

\* run_agent after the child is started: subprocess.run blocks until the
\* child has exited
RunAgentStarted(s) == [s EXCEPT !.pc = "wait"]

\* variant: the error of a failing child is caught and the supervisor ends
\* with exit code 0
RunAgentReturned_ExitZero(s, code) ==
    IF code # 0 THEN [s EXCEPT !.pc = "exit0"]
    ELSE IF s.i < Len(agents) THEN [s EXCEPT !.pc = "loop", !.i = s.i + 1]
    ELSE [s EXCEPT !.pc = "final"]

\* variant: a stage that failed is run again
RunAgentReturned_Retry(s, code) ==
    IF code # 0 THEN [s EXCEPT !.pc = "loop"]
    ELSE IF s.i < Len(agents) THEN [s EXCEPT !.pc = "loop", !.i = s.i + 1]
    ELSE [s EXCEPT !.pc = "final"]

\* variant: check=False, the exit code of the child is ignored
RunAgentReturned_NoCheck(s, code) ==
    IF s.i < Len(agents) THEN [s EXCEPT !.pc = "loop", !.i = s.i + 1]
    ELSE [s EXCEPT !.pc = "final"]

\* run_agent when the child has exited with code: check=True raises
\* CalledProcessError on a non-zero code, nothing catches it, and the
\* supervisor exits non-zero; otherwise the loop of main goes on
RunAgentReturned(s, code) ==
    IF code # 0 THEN [s EXCEPT !.pc = "exit1"]
    ELSE IF s.i < Len(agents) THEN [s EXCEPT !.pc = "loop", !.i = s.i + 1]
    ELSE [s EXCEPT !.pc = "final"]

\* `python supervisor.py` typed by a user in the agents directory
CliStart(r) ==
    /\ pc[r] = "idle"
    /\ \A q \in Runs : q < r => pc[q] = "returned"
    /\ \A q \in Runs \ {r} : kind[q] # "dash"
    /\ "supervisor.py" \in scripts[AGENTS_DIR]
    /\ kind' = [kind EXCEPT ![r] = "cli"]
    /\ sup' = [sup EXCEPT ![r] = [pc |-> "loop", i |-> 1, cwd |-> AGENTS_DIR]]
    /\ pc' = [pc EXCEPT ![r] = "cli"]
    /\ UNCHANGED <<fs, dirs, scripts, hard, down, cwd, req, original_dir, result, procs, hist>>

\* the user's supervisor process has ended
CliEnd(r) ==
    /\ pc[r] = "cli"
    /\ sup[r].pc \in {"exit0", "exit1"}
    /\ pc' = [pc EXCEPT ![r] = "returned"]
    /\ UNCHANGED <<fs, dirs, scripts, hard, down, cwd, kind, req, original_dir, result, sup,
                   procs, hist>>

\* run_agent(script): the child process is started (python exits non-zero
\* at once when the script is not in the working directory)
StartStage(r) ==
    /\ sup[r].pc = "loop"
    /\ IF agents[sup[r].i] \in scripts[sup[r].cwd]
       THEN /\ procs' = procs \cup
                  {[run |-> r, i |-> sup[r].i, pc |-> "main", cwd |-> sup[r].cwd,
                    threshold |-> SqlAgentArgs(sup[r].cwd, hard).threshold,
                    reads |-> {}, writes |-> {}]}
            /\ sup' = [sup EXCEPT ![r] = RunAgentStarted(@)]
            /\ hist' = [hist EXCEPT ![r].started = Append(@, sup[r].i)]
       ELSE /\ sup' = [sup EXCEPT ![r] = RunAgentReturned(@, 2)]
            /\ hist' = [hist EXCEPT ![r].started = Append(@, sup[r].i),
                                    ![r].io = Append(@, [i |-> sup[r].i, code |-> 2,
                                                         reads |-> {}, writes |-> {},
                                                         up |-> TRUE,
                                                         loaded |-> FALSE])]
            /\ UNCHANGED procs
    /\ UNCHANGED <<fs, dirs, scripts, hard, down, cwd, pc, kind, req, original_dir, result>>

\* the body of agent script i, run with no arguments
AgentMain(i, f, ds, c, h, up) ==
    CASE i = 1 -> JdOptimizerMain(f, ds, c, h, up)
      [] i = 2 -> CvGraderMain(f, ds, c, h, up)
      [] i = 3 -> BiasAgentMain(f, ds, c, h, up)
      [] i = 4 -> PersonaAgentMain(f, ds, c, h, up)
      [] i = 5 -> ExplainabilityAgentMain(f, ds, c, h, up)
      [] i = 6 -> FeedbackAgentMain(f, ds, c, h, up)

\* the scripts that load a model when they start, before they read their
\* input: in __init__ of the agent (jd_optimizer, cv_grader, bias_agent) or
\* at import (persona_agent)
LoadsModel(i) == i \in 1..4

\* the child of run r has exited with code: the history records it (and,
\* for a select stage, what it selected), and the supervisor, blocked in
\* subprocess.run, goes on
ChildExited(p, code, reads, writes, up, selected) ==
    /\ procs' = procs \ {p}
    /\ hist' = [hist EXCEPT ![p.run].io =
                   Append(@, [i |-> p.i, code |-> code, reads |-> reads,
                              writes |-> writes, up |-> up,
                              loaded |-> LoadsModel(p.i) /\ up]),
                            ![p.run].selected = selected @@ @]
    /\ sup' = IF sup[p.run].pc = "wait" /\ sup[p.run].i = p.i
              THEN [sup EXCEPT ![p.run] = RunAgentReturned(@, code)]
              ELSE sup

\* one of the first six agents runs from start to exit
StageRun(p) ==
    /\ p \in procs
    /\ p.i < Len(agents)
    /\ LET up == ~(LoadsModel(p.i) /\ p.i \in down)
           d == AgentMain(p.i, fs, dirs, p.cwd, hard, up)
       IN  /\ fs' = d.fs
           /\ ChildExited(p, d.code, d.reads, d.writes, up, <<>>)
    /\ UNCHANGED <<dirs, scripts, hard, down, cwd, pc, kind, req, original_dir, result>>

-----------------------------------------------------------------------------
(* sql_agent.py run with no arguments, step by step                        *)

Database(rows) == [kind |-> "db", rows |-> rows]

\* the row to_sql inserts for one row of the CSV: candidate_filename is
\* renamed, the columns the CSV lacks are NULL
StoreRow(row) ==
    [c \in CANDIDATES_COLUMNS |->
        IF c = "candidate_id" /\ "candidate_filename" \in DOMAIN row
        THEN row["candidate_filename"]
        ELSE IF c \in DOMAIN row THEN row[c] ELSE NaN]

\* df.columns after the rename
StoreCols(cols) ==
    IF "candidate_filename" \in cols
    THEN (cols \ {"candidate_filename"}) \cup {"candidate_id"}
    ELSE cols

\* the insert is accepted: every column exists in the table, and the
\* primary key candidate_id stays unique
InsertAccepted(cols, new, old) ==
    /\ StoreCols(cols) \subseteq CANDIDATES_COLUMNS
    /\ \A a, b \in new : a["candidate_id"] = b["candidate_id"] => a = b
    /\ \A a \in new, b \in old : a["candidate_id"] # b["candidate_id"]

\* variant: CREATE TABLE IF NOT EXISTS, the table of an earlier run stays
create_table_IfNotExists(f, db) ==
    IF db \in DOMAIN f THEN f ELSE WriteFile(f, db, Database({}))

\* create_table: DROP TABLE IF EXISTS Candidates, then CREATE TABLE
create_table(f, db) == WriteFile(f, db, Database({}))

\* SQLiteMemoryAgent(db_path="memory.db"): connect and create_table
SqlCreateTable(p) ==
    LET db == SqlAgentArgs(p.cwd, hard).db_path
    IN  /\ p \in procs
        /\ p.i = Len(agents)
        /\ p.pc = "main"
        /\ IF p.cwd \in dirs
           THEN /\ fs' = create_table(fs, db)
                /\ procs' = (procs \ {p}) \cup
                      {[p EXCEPT !.pc = "insert", !.writes = @ \cup {db}]}
                /\ UNCHANGED <<sup, hist>>
           ELSE /\ ChildExited(p, 1, {}, {}, TRUE, <<>>)
                /\ UNCHANGED fs
        /\ UNCHANGED <<dirs, scripts, hard, down, cwd, pc, kind, req, original_dir, result>>

\* agent.insert_candidates(args.candidate_csv)
SqlInsertCandidates(p) ==
    LET db == SqlAgentArgs(p.cwd, hard).db_path
        candidate_csv == SqlAgentArgs(p.cwd, hard).candidate_csv
    IN  /\ p \in procs
        /\ p.i = Len(agents)
        /\ p.pc = "insert"
        /\ IF /\ CanReadCsv(fs, candidate_csv)
              /\ db \in DOMAIN fs
              /\ InsertAccepted(fs[candidate_csv].cols,
                                {StoreRow(row) : row \in fs[candidate_csv].rows},
                                fs[db].rows)
           THEN LET new == {StoreRow(row) : row \in fs[candidate_csv].rows}
                IN  /\ fs' = WriteFile(fs, db, Database(fs[db].rows \cup new))
                    /\ procs' = (procs \ {p}) \cup
                          {[p EXCEPT !.pc = "query",
                                     !.reads = @ \cup {candidate_csv}]}
                    /\ hist' = [hist EXCEPT ![p.run].inserted = @ + Cardinality(new),
                                            ![p.run].ingested = new]
                    /\ UNCHANGED sup
           ELSE /\ ChildExited(p, 1, p.reads \cup {candidate_csv}, p.writes, TRUE, <<>>)
                /\ UNCHANGED fs
        /\ UNCHANGED <<dirs, scripts, hard, down, cwd, pc, kind, req, original_dir, result>>

\* query_selected_candidates(score_threshold=args.threshold), to_csv, close
SqlSelect(p) ==
    LET db == SqlAgentArgs(p.cwd, hard).db_path
        output_csv == SqlAgentArgs(p.cwd, hard).output_csv
    IN  /\ p \in procs
        /\ p.i = Len(agents)
        /\ p.pc = "query"
        /\ IF db \in DOMAIN fs /\ p.cwd \in dirs
           THEN LET rows == query_selected_candidates(fs[db].rows, p.threshold)
                IN  /\ fs' = WriteFile(fs, output_csv, Csv(CANDIDATES_COLUMNS, rows))
                    /\ ChildExited(p, 0, p.reads, p.writes \cup {output_csv}, TRUE,
                                   p.threshold :> [stored |-> fs[db].rows,
                                                   rows |-> rows])
           ELSE /\ ChildExited(p, 1, p.reads, p.writes, TRUE, <<>>)
                /\ UNCHANGED fs
        /\ UNCHANGED <<dirs, scripts, hard, down, cwd, pc, kind, req, original_dir, result>>

\* main after the loop: pd.read_csv(args.final_selected) and the print
ReadFinal(r) ==
    /\ sup[r].pc = "final"
    /\ IF CanReadCsv(fs, SupervisorArgs(sup[r].cwd, hard).final_selected)
       THEN /\ sup' = [sup EXCEPT ![r].pc = "exit0"]
            /\ hist' = [hist EXCEPT ![r].printed = TRUE]
       ELSE /\ sup' = [sup EXCEPT ![r].pc = "exit1"]
            /\ UNCHANGED hist
    /\ UNCHANGED <<fs, dirs, scripts, hard, down, cwd, pc, kind, req, original_dir, result,
                   procs>>

-----------------------------------------------------------------------------

Step(r) ==
    \/ Submit(r)
    \/ SetupWorkspace(r)
    \/ Getcwd(r)
    \/ Chdir(r)
    \/ SpawnSupervisor(r)
    \/ SupervisorReturned(r)
    \/ ReadResults(r)
    \/ Finally(r)
    \/ Cleanup(r)
    \/ CliStart(r)
    \/ CliEnd(r)
    \/ StartStage(r)
    \/ ReadFinal(r)

Next ==
    \/ \E r \in Runs : Step(r)
    \/ \E p \in procs : StageRun(p)
    \/ \E p \in procs : SqlCreateTable(p)
    \/ \E p \in procs : SqlInsertCandidates(p)
    \/ \E p \in procs : SqlSelect(p)

Spec == Init /\ [][Next]_vars

-----------------------------------------------------------------------------
(* feedback_agent.py and sql_agent.py run by hand, one after the other, in *)
(* the agents directory on a table of explained candidates; sql_agent.py   *)
(* is given --threshold.                                                   *)

\* the largest number of rows of the table
MaxRows == 2

\* the largest number of thresholds sql_agent.py is run with
MaxQueries == 2

ScoreGrades == {-40000, 40000, 60000}

ScorePersonas == {20000, 60000}

\* "A STRONG Match", "strong match", "strong, match", and an empty cell
ScoreExplanations ==
    { <<"A"," ","S","T","R","O","N","G"," ","M","a","t","c","h">>,
      STRONG_MATCH,
      <<"s","t","r","o","n","g",","," ","m","a","t","c","h">>,
      NaN }

ScoreExplanationTag(e) ==
    IF e = NaN THEN "n"
    ELSE IF e = STRONG_MATCH THEN "p"
    ELSE IF e[1] = "A" THEN "u"
    ELSE "s"

\* the candidates a table is made of, one file name for each
ScoreRows ==
    { [candidate_filename |->
           <<"c">> \o DecimalDigits((g + 100000) \div 10000)
               \o DecimalDigits(p \div 10000) \o <<ScoreExplanationTag(e)>>,
       grade_score |-> g, persona_fit_score |-> p, explanation |-> e] :
      g \in ScoreGrades, p \in ScorePersonas, e \in ScoreExplanations }

\* the tables of at most n rows
RECURSIVE TablesUpTo(_)
TablesUpTo(n) ==
    IF n = 0 THEN {{}}
    ELSE LET smaller == TablesUpTo(n - 1)
         IN  smaller \cup {t \cup {row} : t \in smaller, row \in ScoreRows}

ScoreTables == TablesUpTo(MaxRows)

Thresholds == {0, CLI_DEFAULT_THRESHOLD, QUERY_DEFAULT_THRESHOLD, 110000}

InitScore ==
    \E rows \in ScoreTables :
        InitOn(Machine((<<AGENTS_DIR, EXPLAINABILITY_RESULTS>> :>
                           Csv({"candidate_filename"} \cup FEEDBACK_REQUIRED_COLS, rows)),
                       AGENT_FILES, AGENTS_DIR, {}))

\* `python feedback_agent.py` (i = 6) or `python sql_agent.py --threshold t`
\* (i = 7) typed in the agents directory, the feedback agent first and once
ToolStart(i, t) ==
    LET adjusted == FeedbackAgentArgs(AGENTS_DIR, hard).output_csv
    IN  /\ procs = {}
        /\ agents[i] \in scripts[AGENTS_DIR]
        /\ i = 6 => (adjusted \notin DOMAIN fs /\ t = CLI_DEFAULT_THRESHOLD)
        /\ i = 7 => /\ adjusted \in DOMAIN fs
                    /\ t \notin DOMAIN hist[1].selected
                    /\ Cardinality(DOMAIN hist[1].selected) < MaxQueries
        /\ procs' = {[run |-> 1, i |-> i, pc |-> "main", cwd |-> AGENTS_DIR,
                      threshold |-> t, reads |-> {}, writes |-> {}]}
        /\ UNCHANGED <<fs, dirs, scripts, hard, down, cwd, pc, kind, req, original_dir,
                       result, sup, hist>>

NextScore ==
    \/ \E i \in {6, 7}, t \in Thresholds : ToolStart(i, t)
    \/ \E p \in procs : StageRun(p)
    \/ \E p \in procs : SqlCreateTable(p)
    \/ \E p \in procs : SqlInsertCandidates(p)
    \/ \E p \in procs : SqlSelect(p)

SpecScore == InitScore /\ [][NextScore]_vars

-----------------------------------------------------------------------------
(* feedback_agent.py and sql_agent.py run by hand in an agents directory   *)
(* that an earlier run has left its tables and its store in.               *)

\* the candidates of the earlier and of the new run: c1 is in both with
\* different scores
StoreCandidates ==
    { [candidate_filename |-> <<"c","1">>, grade_score |-> 60000,
       persona_fit_score |-> 60000, explanation |-> STRONG_MATCH],
      [candidate_filename |-> <<"c","1">>, grade_score |-> 40000,
       persona_fit_score |-> 20000, explanation |-> NaN],
      [candidate_filename |-> <<"c","2">>, grade_score |-> -40000,
       persona_fit_score |-> 20000, explanation |-> NaN] }

StoreTables ==
    {t \in SUBSET StoreCandidates :
        \A a, b \in t : a["candidate_filename"] = b["candidate_filename"] => a = b}

Explained(rows) ==
    <<AGENTS_DIR, EXPLAINABILITY_RESULTS>> :>
        Csv({"candidate_filename"} \cup FEEDBACK_REQUIRED_COLS, rows)

\* what feedback_agent.py and sql_agent.py leave of a table of candidates
AfterEarlierRun(rows) ==
    LET adjusted == FeedbackAgentMain(Explained(rows), {AGENTS_DIR}, AGENTS_DIR,
                                      AGENTS_DIR, TRUE).fs
        candidate_csv == SqlAgentArgs(AGENTS_DIR, AGENTS_DIR).candidate_csv
        db == SqlAgentArgs(AGENTS_DIR, AGENTS_DIR).db_path
    IN  WriteFile(adjusted, db,
                  Database({StoreRow(row) : row \in adjusted[candidate_csv].rows}))

InitStore ==
    \E rows \in StoreTables :
        \/ InitOn(Machine(Explained(rows), AGENT_FILES, AGENTS_DIR, {}))
        \/ \E earlier \in StoreTables :
              InitOn(Machine(Explained(rows) @@ AfterEarlierRun(earlier),
                             AGENT_FILES, AGENTS_DIR, {}))

\* `python feedback_agent.py` (i = 6, once) or `python sql_agent.py
\* --threshold t` (i = 7) typed in the agents directory, MaxQueries + 1
\* times in all
StoreToolStart(i, t) ==
    /\ procs = {}
    /\ agents[i] \in scripts[AGENTS_DIR]
    /\ i = 6 => /\ t = CLI_DEFAULT_THRESHOLD
                /\ \A k \in 1..Len(hist[1].io) : hist[1].io[k].i # 6
    /\ i = 7 => t \notin DOMAIN hist[1].selected
    /\ Len(hist[1].io) <= MaxQueries
    /\ procs' = {[run |-> 1, i |-> i, pc |-> "main", cwd |-> AGENTS_DIR,
                  threshold |-> t, reads |-> {}, writes |-> {}]}
    /\ UNCHANGED <<fs, dirs, scripts, hard, down, cwd, pc, kind, req, original_dir,
                   result, sup, hist>>

NextStore ==
    \/ \E i \in {6, 7}, t \in Thresholds : StoreToolStart(i, t)
    \/ \E p \in procs : StageRun(p)
    \/ \E p \in procs : SqlCreateTable(p)
    \/ \E p \in procs : SqlInsertCandidates(p)
    \/ \E p \in procs : SqlSelect(p)

SpecStore == InitStore /\ [][NextStore]_vars

-----------------------------------------------------------------------------
(* cv_grader.py run by hand in an agents directory whose CV folder holds   *)
(* files of every sort.                                                    *)

\* a text file of blanks, and a PDF that cannot be parsed
FileW == [name |-> <<"w",".","t","x","t">>, text |-> <<" ", " ">>, readable |-> TRUE]
FileX == [name |-> <<"x",".","P","D","F">>, text |-> TextA, readable |-> FALSE]

GradeCatalogue == {FileA, FileB, FileC, FileE, FileU, FileW, FileX}

InitGrade ==
    \E files \in SUBSET GradeCatalogue :
        InitOn(Machine(WriteFile(AfterJdOptimizer, <<AGENTS_DIR, CV_FOLDER>>,
                                 Folder(files)),
                       AGENT_FILES, AGENTS_DIR, {}))

\* `python cv_grader.py` typed in the agents directory, once
GradeToolStart ==
    /\ procs = {}
    /\ agents[2] \in scripts[AGENTS_DIR]
    /\ hist[1].io = <<>>
    /\ procs' = {[run |-> 1, i |-> 2, pc |-> "main", cwd |-> AGENTS_DIR,
                  threshold |-> CLI_DEFAULT_THRESHOLD, reads |-> {}, writes |-> {}]}
    /\ UNCHANGED <<fs, dirs, scripts, hard, down, cwd, pc, kind, req, original_dir,
                   result, sup, hist>>

NextGrade ==
    \/ GradeToolStart
    \/ \E p \in procs : StageRun(p)

SpecGrade == InitGrade /\ [][NextGrade]_vars

-----------------------------------------------------------------------------
(* anonymize_text called on a text, and again on what it returned, with    *)
(* whatever entities the extractor reports: req[1] holds the arguments of  *)
(* the last call and result[1] what it returned.                           *)

\* the largest number of entities the extractor reports on a text
MaxEnts == 2

\* "Al ok", "Al met Bo"
AnonTexts ==
    { <<"A","l"," ","o","k">>, <<"A","l"," ","m","e","t"," ","B","o">> }

\* a token starts after position a, ends at position b: spaCy's entities
\* are spans of whole tokens, and no token has a blank in it
TokenStart(text, a) ==
    /\ text[a + 1] # " "
    /\ a = 0 \/ ~(text[a] \in WordChars /\ text[a + 1] \in WordChars)

TokenEnd(text, b) ==
    /\ text[b] # " "
    /\ b = Len(text) \/ ~(text[b] \in WordChars /\ text[b + 1] \in WordChars)

EntSpans(text) ==
    { [start_char |-> a, end_char |-> b, label_ |-> l] :
          a \in {x \in 0..(Len(text) - 1) : TokenStart(text, x)},
          b \in {y \in 1..Len(text) : TokenEnd(text, y)},
          l \in {"PERSON", "ORG"} }

RECURSIVE EntSeqs(_, _)
\* what doc.ents can be: up to n spans that do not overlap, in document order
EntSeqs(text, n) ==
    IF n = 0 THEN {<<>>}
    ELSE LET shorter == EntSeqs(text, n - 1)
         IN  shorter \cup
             UNION { { Append(q, e) :
                         e \in {x \in EntSpans(text) :
                                   /\ x.start_char < x.end_char
                                   /\ \A k \in 1..Len(q) :
                                         q[k].end_char <= x.start_char} } :
                     q \in shorter }

InitAnon ==
    \E text \in AnonTexts :
        /\ req = [r \in Runs |-> [text |-> text, ents |-> <<>>, passes |-> 0]]
        /\ result = [r \in Runs |-> Pending]
        /\ fs = << >>
        /\ scripts = [d \in Dirs |-> IF d = AGENTS_DIR THEN AGENT_FILES ELSE {}]
        /\ hard = AGENTS_DIR
        /\ down = {}
        /\ dirs = {AGENTS_DIR, HOME_DIR}
        /\ cwd = HOME_DIR
        /\ pc = [r \in Runs |-> "idle"]
        /\ kind = [r \in Runs |-> "none"]
        /\ original_dir = [r \in Runs |-> HOME_DIR]
        /\ sup = [r \in Runs |-> NoSup]
        /\ procs = {}
        /\ hist = [r \in Runs |-> NoHist]

\* anonymize_text(text, nlp) on the text given, and a second time on what
\* the first call returned
Anonymize ==
    LET text == IF req[1].passes = 0 THEN req[1].text ELSE result[1].text
    IN  /\ req[1].passes \in {0, 1}
        /\ \E ents \in EntSeqs(text, MaxEnts) :
              /\ req' = [req EXCEPT ![1] = [text |-> text, ents |-> ents,
                                            passes |-> req[1].passes + 1]]
              /\ result' = [result EXCEPT ![1] =
                               [kind |-> "text", text |-> anonymize_text(text, ents)]]
        /\ UNCHANGED <<fs, dirs, scripts, hard, down, cwd, pc, kind, original_dir, sup,
                       procs, hist>>

NextAnon == Anonymize

SpecAnon == InitAnon /\ [][NextAnon]_vars

-----------------------------------------------------------------------------
(* Two sql_agent.py processes, one of each run, started by hand in the     *)
(* same agents directory, so that they share memory.db; feedback_agent.py  *)
(* may rewrite the table between their steps.                              *)

InitRace ==
    \E rows \in StoreTables, earlier \in StoreTables :
        InitOn(Machine(Explained(rows) @@ AfterEarlierRun(earlier),
                       AGENT_FILES, AGENTS_DIR, {}))

\* `python sql_agent.py` typed for run r, once; the history notes when
\* the select stage of the other run is alive at that moment
RaceSqlStart(r) ==
    /\ hist[r].started = <<>>
    /\ agents[7] \in scripts[AGENTS_DIR]
    /\ procs' = procs \cup
          {[run |-> r, i |-> 7, pc |-> "main", cwd |-> AGENTS_DIR,
            threshold |-> CLI_DEFAULT_THRESHOLD, reads |-> {}, writes |-> {}]}
    /\ hist' = [q \in Runs |->
                  IF q = r
                  THEN [hist[q] EXCEPT !.started = <<7>>,
                                       !.overlapped = \E p \in procs : p.i = 7]
                  ELSE IF \E p \in procs : p.i = 7 /\ p.run = q
                       THEN [hist[q] EXCEPT !.overlapped = TRUE]
                       ELSE hist[q]]
    /\ UNCHANGED <<fs, dirs, scripts, hard, down, cwd, pc, kind, req, original_dir,
                   result, sup>>

\* `python feedback_agent.py` typed once, at any moment
RaceFeedbackStart ==
    /\ \A p \in procs : p.i # 6
    /\ \A k \in 1..Len(hist[1].io) : hist[1].io[k].i # 6
    /\ agents[6] \in scripts[AGENTS_DIR]
    /\ procs' = procs \cup
          {[run |-> 1, i |-> 6, pc |-> "main", cwd |-> AGENTS_DIR,
            threshold |-> CLI_DEFAULT_THRESHOLD, reads |-> {}, writes |-> {}]}
    /\ UNCHANGED <<fs, dirs, scripts, hard, down, cwd, pc, kind, req, original_dir,
                   result, sup, hist>>

NextRace ==
    \/ \E r \in Runs : RaceSqlStart(r)
    \/ RaceFeedbackStart
    \/ \E p \in procs : StageRun(p)
    \/ \E p \in procs : SqlCreateTable(p)
    \/ \E p \in procs : SqlInsertCandidates(p)
    \/ \E p \in procs : SqlSelect(p)

SpecRace == InitRace /\ [][NextRace]_vars

-----------------------------------------------------------------------------
(* flesch_kincaid_grade's loop over the words of a text: count_syllables   *)
(* is called on one token of re.findall(r'\w+', text) after the other;     *)
(* req[1] holds the text and how many tokens are done, result[1] the last  *)
(* token and what count_syllables returned for it.                         *)

\* the longest text
MaxTextLen == 4

SyllableChars == {"a", "e", "t", "E", "1", "_", " "}

SyllableTexts == UNION {[1..n -> SyllableChars] : n \in 1..MaxTextLen}

InitSyllables ==
    \E text \in SyllableTexts :
        /\ req = [r \in Runs |-> [text |-> text, counted |-> 0]]
        /\ result = [r \in Runs |-> Pending]
        /\ fs = << >>
        /\ scripts = [d \in Dirs |-> IF d = AGENTS_DIR THEN AGENT_FILES ELSE {}]
        /\ hard = AGENTS_DIR
        /\ down = {}
        /\ dirs = {AGENTS_DIR, HOME_DIR}
        /\ cwd = HOME_DIR
        /\ pc = [r \in Runs |-> "idle"]
        /\ kind = [r \in Runs |-> "none"]
        /\ original_dir = [r \in Runs |-> HOME_DIR]
        /\ sup = [r \in Runs |-> NoSup]
        /\ procs = {}
        /\ hist = [r \in Runs |-> NoHist]

\* self.count_syllables(w) for the next w of words
CountSyllables ==
    LET words == FindWords(req[1].text)
    IN  /\ req[1].counted < Len(words)
        /\ req' = [req EXCEPT ![1].counted = @ + 1]
        /\ result' = [result EXCEPT ![1] =
                         [kind |-> "int", word |-> words[req[1].counted + 1],
                          value |-> count_syllables(words[req[1].counted + 1])]]
        /\ UNCHANGED <<fs, dirs, scripts, hard, down, cwd, pc, kind, original_dir, sup,
                       procs, hist>>

NextSyllables == CountSyllables

SpecSyllables == InitSyllables /\ [][NextSyllables]_vars

-----------------------------------------------------------------------------
(* One request, or one supervisor run, at a time, on agents directories    *)
(* whose tables decide what the result projection of the request reads.    *)

\* a cv_bias_flags cell written by another tool: brackets, no quotes
FOREIGN_FLAGS == <<"[","n","i","n","j","a","]">>

\* the agents directory of InputEarlierRun with explainability_results.csv
\* replaced by a table whose cv_bias_flags cells are such texts
InputForeignFlags ==
    LET path == <<AGENTS_DIR, EXPLAINABILITY_RESULTS>>
        table == InputEarlierRun[path]
    IN  WriteFile(InputEarlierRun, path,
                  Csv(table.cols,
                      {SetCols(row, [cv_bias_flags |-> FOREIGN_FLAGS]) :
                          row \in table.rows}))

\* a job-description table that has a column more than the two required
InputExtraColumn ==
    (<<AGENTS_DIR, JD_CSV>> :>
        Csv(JD_REQUIRED_COLS \cup {"Location"},
            << ("Job Title" :> "dev") @@ ("Job Description" :> JDSimple)
                   @@ ("Location" :> "remote") >>))
        @@ (<<AGENTS_DIR, CV_FOLDER>> :> Folder({FileA, FileB}))

\* a job description that is rephrased, and two candidates
InputComplex ==
    (<<AGENTS_DIR, JD_CSV>> :> JdTable("dev", JDComplex))
        @@ (<<AGENTS_DIR, CV_FOLDER>> :> Folder({FileA, FileB}))

\* a CV folder with a file named after the phrase of the feedback rule
InputStrongName ==
    (<<AGENTS_DIR, JD_CSV>> :> JdTable("dev", JDSimple))
        @@ (<<AGENTS_DIR, CV_FOLDER>> :> Folder({FileA, FileS}))

\* a CV folder with texts longer than the preview
InputLongTexts ==
    (<<AGENTS_DIR, JD_CSV>> :> JdTable("dev", JDSimple))
        @@ (<<AGENTS_DIR, CV_FOLDER>> :> Folder({FileL, FileM, FileN}))

\* the agents directory with one of the eight agent files missing
MachinesWithoutOne ==
    { Machine(InputGood, AGENT_FILES \ {a}, AGENTS_DIR, {}) : a \in AGENT_FILES }

SoloMachines ==
    MachinesWithoutOne \cup
    { Machine(InputEarlierRun, AGENT_FILES, AGENTS_DIR, {}),
      Machine(InputExtraColumn, AGENT_FILES, AGENTS_DIR, {}),
      Machine(InputComplex, AGENT_FILES, AGENTS_DIR, {}),
      Machine(InputStrongName, AGENT_FILES, AGENTS_DIR, {}),
      Machine(InputLongTexts, AGENT_FILES, AGENTS_DIR, {}),
      Machine(InputWeakRun, AGENT_FILES, AGENTS_DIR, {}),
      Machine(InputForeignFlags, AGENT_FILES, AGENTS_DIR, {}) }

InitSolo == \E m \in SoloMachines : InitOn(m)

NextSolo ==
    \/ Step(1)
    \/ \E p \in procs : StageRun(p)
    \/ \E p \in procs : SqlCreateTable(p)
    \/ \E p \in procs : SqlInsertCandidates(p)
    \/ \E p \in procs : SqlSelect(p)

SpecSolo == InitSolo /\ [][NextSolo]_vars

\* the step in which the child process of one of the first six stages
\* exits: under NextSolo it is a StageRun step
StageExits == \E p \in procs : p.i < Len(agents) /\ procs' = procs \ {p}

\* the supervisor process goes on whenever it can (it is never blocked but
\* in subprocess.run), and every stage that has been started returns
FairSolo ==
    /\ WF_vars(StartStage(1))
    /\ WF_vars(ReadFinal(1))
    /\ WF_procs(StageExits)
    /\ WF_vars(\E p \in procs : SqlCreateTable(p))
    /\ WF_vars(\E p \in procs : SqlInsertCandidates(p))
    /\ WF_vars(\E p \in procs : SqlSelect(p))

SpecSoloFair == SpecSolo /\ FairSolo


-----------------------------------------------------------------------------
(* bias_agent.py and then persona_agent.py run by hand in the agents       *)
(* directory, on the tables that jd_optimizer.py and cv_grader.py write    *)
(* for a job description and two CVs made of the same words, the second in *)
(* reverse order, or for the job description and the CV of the worked      *)
(* example.                                                                *)

\* the largest number of words of a text
MaxWords == 3

BiasWords ==
    { <<"G","u","r","u">>, <<"n","i","n","j","a">>,
      <<"n","i","n","j","a","s">>, <<"d","e","v">> }

\* what stands between two words; "_" makes one word of them
BiasSeparators == {" ", "-", "_"}

RECURSIVE Join(_, _)
Join(ws, sep) ==
    IF Len(ws) = 0 THEN <<>>
    ELSE IF Len(ws) = 1 THEN ws[1]
    ELSE ws[1] \o <<sep>> \o Join(Tail(ws), sep)

Reverse(ws) == [i \in 1..Len(ws) |-> ws[Len(ws) + 1 - i]]

FORWARD_TXT == <<"f",".","t","x","t">>
REVERSE_TXT == <<"r",".","t","x","t">>

\* the agents directory after jd_optimizer.py and cv_grader.py have run on a
\* job description equal to the first CV's text
BiasInput(ws, sep) ==
    LET text == Join(ws, sep)
        jd == OptimizeJdRow(("Job Title" :> "dev") @@ ("Job Description" :> text))
    IN  (<<AGENTS_DIR, OPTIMIZED_JDS>> :> Csv(JD_OUTPUT_COLS, <<jd>>))
        @@ (<<AGENTS_DIR, CV_GRADING_RESULTS>> :>
               Csv(GRADER_COLS,
                   {GradeRow(FORWARD_TXT, text, jd["optimized_jd"]),
                    GradeRow(REVERSE_TXT, Join(Reverse(ws), sep), jd["optimized_jd"])}))

SCENARIO_TXT == <<"c","v",".","t","x","t">>

\* the same for the worked example
ScenarioInput ==
    LET jd == OptimizeJdRow(("Job Title" :> "dev") @@ ("Job Description" :> SCENARIO_JD))
    IN  (<<AGENTS_DIR, OPTIMIZED_JDS>> :> Csv(JD_OUTPUT_COLS, <<jd>>))
        @@ (<<AGENTS_DIR, CV_GRADING_RESULTS>> :>
               Csv(GRADER_COLS, {GradeRow(SCENARIO_TXT, SCENARIO_CV, jd["optimized_jd"])}))

InitBias ==
    \/ \E n \in 1..MaxWords :
          \E ws \in [1..n -> BiasWords], sep \in BiasSeparators :
              InitOn(Machine(BiasInput(ws, sep), AGENT_FILES, AGENTS_DIR, {}))
    \/ InitOn(Machine(ScenarioInput, AGENT_FILES, AGENTS_DIR, {}))

\* `python bias_agent.py` (i = 3) and then `python persona_agent.py` (i = 4)
\* typed in the agents directory, each once
BiasToolStart(i) ==
    /\ procs = {}
    /\ agents[i] \in scripts[AGENTS_DIR]
    /\ Len(hist[1].io) = i - 3
    /\ \A k \in 1..Len(hist[1].io) : hist[1].io[k].code = 0
    /\ procs' = {[run |-> 1, i |-> i, pc |-> "main", cwd |-> AGENTS_DIR,
                  threshold |-> CLI_DEFAULT_THRESHOLD, reads |-> {}, writes |-> {}]}
    /\ UNCHANGED <<fs, dirs, scripts, hard, down, cwd, pc, kind, req, original_dir,
                   result, sup, hist>>

NextBias ==
    \/ \E i \in {3, 4} : BiasToolStart(i)
    \/ \E p \in procs : StageRun(p)

SpecBias == InitBias /\ [][NextBias]_vars

-----------------------------------------------------------------------------
(* Properties of the orchestration                                         *)

\* C1: in every run of the supervisor the stages start in exactly the order
\* jd_optimizer, cv_grader, bias_agent, persona_agent, explainability_agent,
\* feedback_agent, sql_agent; stage i+1 is started only after stage i has
\* returned with exit code 0, and at most one stage of a run is alive at any
\* time.
C1_StageOrder ==
    \A r \in Runs :
        LET started == hist[r].started
            io == hist[r].io
            order == <<"jd_optimizer.py", "cv_grader.py", "bias_agent.py",
                       "persona_agent.py", "explainability_agent.py",
                       "feedback_agent.py", "sql_agent.py">>
        IN  /\ Len(started) <= Len(order)
            /\ \A k \in 1..Len(started) : agents[started[k]] = order[k]
            /\ \A k \in 2..Len(started) :
                  /\ Len(io) >= k - 1
                  /\ io[k - 1].i = started[k - 1]
                  /\ io[k - 1].code = 0
            /\ Cardinality({p \in procs : p.run = r}) <= 1
            /\ \A p \in procs : p.run = r =>
                  /\ Len(started) = Len(io) + 1
                  /\ p.i = started[Len(started)]

\* a run whose seven stages have all been started and have all returned
C1_Witness ==
    \E r \in Runs :
        /\ hist[r].started = <<1, 2, 3, 4, 5, 6, 7>>
        /\ Len(hist[r].io) = 7
        /\ sup[r].pc = "exit0"

\* C2: fail-fast.  Once a stage of a run has exited non-zero, that stage is
\* the last one the run ever started, the supervisor has ended by exiting
\* with code 1, and it has not read and printed the final selection.
C2_FailFast ==
    \A r \in Runs :
        \A k \in 1..Len(hist[r].io) :
            hist[r].io[k].code # 0 =>
                /\ Len(hist[r].started) = k
                /\ Len(hist[r].io) = k
                /\ {p \in procs : p.run = r} = {}
                /\ sup[r].pc = "exit1"
                /\ ~hist[r].printed

\* a run that failed at its third stage although the later scripts are there
C2_Witness ==
    \E r \in Runs :
        /\ Len(hist[r].io) = 3
        /\ hist[r].io[3].code # 0
        /\ {agents[i] : i \in 4..7} \subseteq scripts[sup[r].cwd]
        /\ sup[r].pc = "exit1"

\* C3: file hand-off.  In a run of the supervisor, which passes no arguments,
\* the default input of every stage is the very file that is the default
\* output of the stage before it, in the working directory of the run; and
\* every input a stage past the first has opened is a file of that directory.
C3_FileHandOff ==
    \A r \in Runs :
        sup[r].pc # "none" =>
            LET c == sup[r].cwd
            IN  /\ CvGraderArgs(c, hard).jd_csv = JdOptimizerArgs(c, hard).output_csv
                /\ BiasAgentArgs(c, hard).jd_input = JdOptimizerArgs(c, hard).output_csv
                /\ BiasAgentArgs(c, hard).cv_input = CvGraderArgs(c, hard).output_csv
                /\ PersonaAgentArgs(c, hard).input_csv = BiasAgentArgs(c, hard).cv_output
                /\ ExplainabilityAgentArgs(c, hard).input_csv
                       = PersonaAgentArgs(c, hard).output_csv
                /\ FeedbackAgentArgs(c, hard).input_csv
                       = ExplainabilityAgentArgs(c, hard).output_csv
                /\ SqlAgentArgs(c, hard).candidate_csv
                       = FeedbackAgentArgs(c, hard).output_csv
                /\ SupervisorArgs(c, hard).final_selected
                       = SqlAgentArgs(c, hard).output_csv
                /\ \A k \in 2..Len(hist[r].io) :
                       \A path \in hist[r].io[k].reads : path[1] = c

\* C4: process_candidates never returns to its caller with the workspace of
\* the request still existing, whatever the exit path: neither the directory
\* nor any file in it is left.
C4_WorkspaceDestroyed ==
    \A r \in Runs :
        (kind[r] = "dash" /\ pc[r] = "returned") =>
            /\ TempDir(r) \notin dirs
            /\ \A path \in DOMAIN fs : path[1] # TempDir(r)
            /\ scripts[TempDir(r)] = {}

\* a request has returned None after its supervisor failed, the workspace
\* having been set up and populated by the stages
C4_Witness ==
    \E r \in Runs :
        /\ kind[r] = "dash" /\ pc[r] = "returned" /\ result[r] = None
        /\ sup[r].pc = "exit1"
        /\ \E k \in 1..Len(hist[r].io) : hist[r].io[k].writes # {}

\* C5: process_candidates returns a result list, and copies
\* final_selected_candidates.csv out of the workspace, only when the seven
\* stages of the supervisor it started have all exited with code 0; a request
\* one of whose stages failed returns None.
C5_NoPartialResults ==
    \A r \in Runs :
        /\ (result[r].kind = "list" \/ hist[r].copied) =>
              /\ kind[r] = "dash"
              /\ Len(hist[r].io) = 7
              /\ \A k \in 1..7 : hist[r].io[k].i = k /\ hist[r].io[k].code = 0
        /\ (kind[r] = "dash" /\ pc[r] = "returned"
                /\ \E k \in 1..Len(hist[r].io) : hist[r].io[k].code # 0) =>
              (result[r] = None /\ ~hist[r].copied)

\* a request has returned a non-empty result list and copied the file out
C5_Witness ==
    \E r \in Runs :
        /\ pc[r] = "returned"
        /\ result[r].kind = "list"
        /\ Len(result[r].rows) > 0
        /\ hist[r].copied

\* C6: empty input.  A supervisor run on a directory that has every script,
\* a well-formed job-description table and a CV folder none of whose files
\* yields a candidate row, undisturbed by any other run and with every model
\* loading, runs all seven stages with exit code 0, ends with exit code 0,
\* and leaves an empty final selection.
C6_EmptyInputCompletes ==
    \A r \in Runs :
        LET c == sup[r].cwd
            jd == JdOptimizerArgs(c, hard).jd_csv
            folder == CvGraderArgs(c, hard).cv_folder
            final == SqlAgentArgs(c, hard).output_csv
        IN  ( /\ kind[r] = "cli"
              /\ sup[r].pc \in {"exit0", "exit1"}
              /\ \A q \in Runs \ {r} : kind[q] = "none"
              /\ {agents[i] : i \in 1..7} \subseteq scripts[c]
              /\ CanReadCsv(fs, jd) /\ JD_REQUIRED_COLS \subseteq fs[jd].cols
              /\ folder \in DOMAIN fs /\ fs[folder].kind = "dir"
              /\ \A n \in DOMAIN fs[folder].files :
                    ~CvYieldsRow(n, fs[folder].files[n])
              /\ \A k \in 1..Len(hist[r].io) : hist[r].io[k].up )
            => /\ sup[r].pc = "exit0"
               /\ Len(hist[r].io) = 7
               /\ \A k \in 1..7 : hist[r].io[k].code = 0
               /\ final \in DOMAIN fs /\ fs[final].rows = {}

\* C7: schema failure.  When the job-description table of a run has no
\* 'Job Description' column, the only stage the run ever starts is the first,
\* that stage exits non-zero without having written any file, the supervisor
\* then exits with code 1, and the run inserts no row into the Candidates
\* table.
C7_SchemaFailure ==
    \A r \in Runs :
        LET jd == JdOptimizerArgs(sup[r].cwd, hard).jd_csv
        IN  ( /\ sup[r].pc # "none"
              /\ jd \in DOMAIN fs /\ fs[jd].kind = "csv"
              /\ "Job Description" \notin fs[jd].cols )
            => /\ Len(hist[r].started) <= 1
               /\ \A p \in procs : p.run = r => p.i = 1
               /\ \A k \in 1..Len(hist[r].io) :
                     /\ hist[r].io[k].i = 1
                     /\ hist[r].io[k].code # 0
                     /\ hist[r].io[k].writes = {}
               /\ Len(hist[r].io) = 1 => sup[r].pc = "exit1"
               /\ hist[r].inserted = 0
               /\ SqlAgentArgs(sup[r].cwd, hard).db_path \notin DOMAIN fs

\* the first stage has read such a table, with its model loaded, and the
\* supervisor has ended
C7_Witness ==
    \E r \in Runs :
        LET jd == JdOptimizerArgs(sup[r].cwd, hard).jd_csv
        IN  /\ sup[r].pc = "exit1"
            /\ jd \in DOMAIN fs /\ "Job Description" \notin fs[jd].cols
            /\ Len(hist[r].io) = 1
            /\ hist[r].io[1].up
            /\ hist[r].io[1].reads = {jd}

\* C8: request isolation.  The supervisor and the stages of a dashboard
\* request run in the workspace of that request, every file a stage of the
\* request opens for reading or for writing is in that workspace, and the
\* candidates of the returned result are among the CVs the request uploaded.
C8_RequestIsolation ==
    \A r \in Runs :
        kind[r] = "dash" =>
            /\ sup[r].pc # "none" => sup[r].cwd = TempDir(r)
            /\ \A p \in procs : p.run = r => p.cwd = TempDir(r)
            /\ \A k \in 1..Len(hist[r].io) :
                  \A path \in hist[r].io[k].reads \cup hist[r].io[k].writes :
                      path[1] = TempDir(r)
            /\ result[r].kind = "list" =>
                  \A k \in 1..Len(result[r].rows) :
                      result[r].rows[k].candidate
                          \in {u.name : u \in req[r].uploaded_files}

-----------------------------------------------------------------------------
(* Properties of the scores and of the selection                           *)

\* C9: every row of the table the feedback agent writes has
\* composite_score = 0.6*grade_score + 0.4*persona_fit_score, has a
\* feedback_adjustment that is 0.05 exactly when its explanation is a text in
\* which "strong match" occurs, letters compared without regard to case, and
\* is -0.02 otherwise, and has updated_score = composite_score +
\* feedback_adjustment; the rows are those of the input table, with its
\* cells unchanged.
C9_FeedbackScores ==
    LET input_csv == FeedbackAgentArgs(AGENTS_DIR, hard).input_csv
        output_csv == FeedbackAgentArgs(AGENTS_DIR, hard).output_csv
        Occurs(e) ==
            /\ e # NaN
            /\ \E k \in 0..(Len(e) - 12) :
                  \A j \in 1..12 :
                      \/ e[k + j] = STRONG_MATCH[j]
                      \/ /\ STRONG_MATCH[j] \in DOMAIN UpperOf
                         /\ e[k + j] = UpperOf[STRONG_MATCH[j]]
    IN  output_csv \in DOMAIN fs =>
            /\ \A row \in fs[output_csv].rows :
                  /\ 10 * row["composite_score"]
                         = 6 * row["grade_score"] + 4 * row["persona_fit_score"]
                  /\ row["feedback_adjustment"] \in {5000, -2000}
                  /\ row["feedback_adjustment"] = 5000 <=> Occurs(row["explanation"])
                  /\ row["updated_score"]
                         = row["composite_score"] + row["feedback_adjustment"]
            /\ {[c \in fs[input_csv].cols |-> row[c]] : row \in fs[output_csv].rows}
                   = fs[input_csv].rows
            /\ Cardinality(fs[output_csv].rows) = Cardinality(fs[input_csv].rows)

\* the feedback agent has written a table with a row adjusted upwards for an
\* explanation in capitals, and a row adjusted downwards for an empty cell
C9_Witness ==
    LET output_csv == FeedbackAgentArgs(AGENTS_DIR, hard).output_csv
    IN  /\ output_csv \in DOMAIN fs
        /\ \E a, b \in fs[output_csv].rows :
              /\ a["explanation"] # NaN /\ a["explanation"][3] = "S"
              /\ a["feedback_adjustment"] = 5000
              /\ a["grade_score"] < 0
              /\ b["explanation"] = NaN
              /\ b["feedback_adjustment"] = -2000

\* C10: a selection returns exactly the rows of the stored table whose
\* updated_score is at least the threshold; of two selections from the same
\* stored table the one with the greater threshold is a subset of the other;
\* and a threshold greater than every stored updated_score selects nothing.
C10_SelectionMonotonic ==
    \A r \in Runs :
        LET sel == hist[r].selected
        IN  /\ \A t \in DOMAIN sel :
                  sel[t].rows = {row \in sel[t].stored : row["updated_score"] >= t}
            /\ \A t1, t2 \in DOMAIN sel :
                  (t1 <= t2 /\ sel[t1].stored = sel[t2].stored) =>
                      sel[t2].rows \subseteq sel[t1].rows
            /\ \A t \in DOMAIN sel :
                  (\A row \in sel[t].stored : row["updated_score"] < t) =>
                      sel[t].rows = {}

\* two selections from one stored table of two rows, the second a proper
\* subset of the first, with a row whose updated_score is the threshold
C10_Witness ==
    \E r \in Runs :
        LET sel == hist[r].selected
        IN  \E t1, t2 \in DOMAIN sel :
                /\ t1 < t2
                /\ sel[t1].stored = sel[t2].stored
                /\ Cardinality(sel[t1].stored) = 2
                /\ sel[t2].rows # sel[t1].rows
                /\ sel[t2].rows # {}
                /\ \E row \in sel[t2].rows : row["updated_score"] = t2

\* C11 (as stated): a selection with threshold 0 returns every candidate of
\* the feedback-adjusted table that was ingested into the store.
C11_ThresholdZeroSelectsAll ==
    \A r \in Runs :
        0 \in DOMAIN hist[r].selected =>
            hist[r].selected[0].rows = hist[r].selected[0].stored

\* C11 (amended): the store a selection with threshold 0 reads holds one row
\* for every candidate of the feedback-adjusted table, with the same
\* updated_score; the selection returns exactly the stored candidates whose
\* updated_score is not negative, hence every ingested candidate when no
\* updated_score of the table is negative.
C11_ThresholdZeroSelectsNonNegative ==
    LET adjusted == SqlAgentArgs(AGENTS_DIR, hard).candidate_csv
    IN  \A r \in Runs :
            0 \in DOMAIN hist[r].selected =>
                LET stored == hist[r].selected[0].stored
                    rows == hist[r].selected[0].rows
                IN  /\ Cardinality(stored) = Cardinality(fs[adjusted].rows)
                    /\ \A row \in fs[adjusted].rows :
                          \E s \in stored :
                              /\ s["candidate_id"] = row["candidate_filename"]
                              /\ s["updated_score"] = row["updated_score"]
                    /\ rows \subseteq stored
                    /\ \A s \in stored : s \in rows <=> s["updated_score"] >= 0
                    /\ (\A s \in stored : s["updated_score"] >= 0) => rows = stored

\* a selection with threshold 0 has returned both candidates of a table, one
\* of them with a negative grade_score
C11_Witness ==
    \E r \in Runs :
        /\ 0 \in DOMAIN hist[r].selected
        /\ Cardinality(hist[r].selected[0].stored) = 2
        /\ hist[r].selected[0].rows = hist[r].selected[0].stored
        /\ \E s \in hist[r].selected[0].rows : s["grade_score"] < 0

-----------------------------------------------------------------------------
(* Properties of the result projection                                     *)

\* C12: when process_candidates has read the selected set, it has a result
\* list of exactly min(top_n, |selected|) rows in descending order of
\* updated_score (match_score is updated_score * 100), and every returned
\* row has an updated_score no smaller than that of any selected row that
\* was not returned.
C12_TopN ==
    \A r \in Runs :
        (pc[r] = "finally" /\ hist[r].ranked # <<>>) =>
            LET selected == hist[r].ranked[1]
                n == req[r].top_n
                k == IF n <= Cardinality(selected) THEN n ELSE Cardinality(selected)
            IN  /\ result[r].kind = "list"
                /\ Len(result[r].rows) = k
                /\ \A i, j \in 1..Len(result[r].rows) :
                      i < j => result[r].rows[i].match_score
                                   >= result[r].rows[j].match_score
                /\ \A row \in selected :
                      (\A i \in 1..Len(result[r].rows) :
                           result[r].rows[i].candidate # row["candidate_id"])
                      => \A i \in 1..Len(result[r].rows) :
                             result[r].rows[i].match_score
                                 >= row["updated_score"] * 100

\* C13: when process_candidates has read a non-empty selected set, it has a
\* result list, and every row of the list has bias_free_score =
\* (1 - n/10) * 100 when the cv_bias_flags cell of its candidate is a text
\* that lists n terms of the lexicon, and 100 when the cell is empty or is
\* any other text; no cell makes the request fail.
C13_BiasFreeScore ==
    \A r \in Runs :
        (pc[r] = "finally" /\ hist[r].ranked # <<>> /\ hist[r].ranked[1] # {}) =>
            /\ result[r].kind = "list"
            /\ \A k \in 1..Len(result[r].rows) :
                  \E row \in hist[r].ranked[1] :
                      /\ row["candidate_id"] = result[r].rows[k].candidate
                      /\ LET cell == row["cv_bias_flags"]
                             score == result[r].rows[k].bias_free_score
                             lists == {S \in SUBSET BIASED_TERMS : cell = FlagsCell(S)}
                         IN  IF cell # NaN /\ lists # {}
                             THEN \E S \in lists :
                                      score = (10 - Cardinality(S)) * 10 * 100000
                             ELSE score = 100 * 100000

-----------------------------------------------------------------------------
(* Properties of the bias stage                                            *)

\* C14: the flag list detect_bias gives for a text names terms of the
\* lexicon only, and names a term exactly when the term occurs in the text
\* as a whole word (not preceded or followed by a letter, digit or "_"),
\* letters compared without regard to case; two texts made of the same words
\* in opposite orders get the same flag set, and so do two calls on the same
\* text (the job description and the first CV).
C14_DetectBias ==
    LET jd_output == BiasAgentArgs(AGENTS_DIR, hard).jd_output
        cv_output == BiasAgentArgs(AGENTS_DIR, hard).cv_output
        Quoted(t) == <<"'">> \o t \o <<"'">>
        Flagged(cell) == {t \in BIASED_TERMS : Contains(cell, Quoted(t))}
        SameLetter(a, b) ==
            \/ a = b
            \/ a \in DOMAIN UpperOf /\ UpperOf[a] = b
            \/ b \in DOMAIN UpperOf /\ UpperOf[b] = a
        WholeWord(t, text) ==
            \E k \in 0..(Len(text) - Len(t)) :
                /\ \A j \in 1..Len(t) : SameLetter(text[k + j], t[j])
                /\ k = 0 \/ text[k] \notin WordChars
                /\ k + Len(t) = Len(text) \/ text[k + Len(t) + 1] \notin WordChars
    IN  cv_output \in DOMAIN fs =>
            /\ \A row \in fs[cv_output].rows :
                  LET cell == row["cv_bias_flags"]
                  IN  /\ CountChar(cell, "'") = 2 * Cardinality(Flagged(cell))
                      /\ \A t \in BIASED_TERMS :
                            t \in Flagged(cell) <=> WholeWord(t, row["cv_text_preview"])
            /\ \A a, b \in fs[cv_output].rows :
                  Flagged(a["cv_bias_flags"]) = Flagged(b["cv_bias_flags"])
            /\ \A a \in fs[cv_output].rows :
                  \A k \in 1..Len(fs[jd_output].rows) :
                      fs[jd_output].rows[k]["optimized_jd"] = a["cv_text_preview"]
                      => Flagged(fs[jd_output].rows[k]["jd_bias_flags"])
                             = Flagged(a["cv_bias_flags"])

\* the bias agent has flagged "guru" for "Guru" and left "ninja" unflagged
\* in a text that holds it only inside longer words, the two CVs differing
\* in the order of their words
C14_Witness ==
    LET cv_output == BiasAgentArgs(AGENTS_DIR, hard).cv_output
    IN  /\ cv_output \in DOMAIN fs
        /\ \E a, b \in fs[cv_output].rows :
              /\ a["cv_text_preview"] # b["cv_text_preview"]
              /\ Contains(Lower(a["cv_text_preview"]), <<"n","i","n","j","a">>)
              /\ Contains(a["cv_text_preview"], <<"G","u","r","u">>)
              /\ a["cv_bias_flags"] = <<"[","'","g","u","r","u","'","]">>
              /\ b["cv_bias_flags"] = a["cv_bias_flags"]

\* C15 (as stated): in the worked example the soft-skill keyword count of
\* the CV is 3, so that its persona_fit_score is
\* 0.7 * sentiment + 0.3 * 0.15.
C15_ScenarioCountThree ==
    LET output_csv == PersonaAgentArgs(AGENTS_DIR, hard).output_csv
        s == Sentiment(SCENARIO_CV)
        positive == IF s.label = "POSITIVE" THEN s.score ELSE 0
    IN  output_csv \in DOMAIN fs =>
            \A row \in fs[output_csv].rows :
                row["cv_text_preview"] = SCENARIO_CV
                => 10 * row["persona_fit_score"] = 7 * positive + 3 * 15000

\* C15 (amended): in the worked example the soft-skill keyword count of the
\* CV is 4 ("team", "leader", "collaborative", "proactive"), so that its
\* persona_fit_score is 0.7 * sentiment + 0.3 * 0.20, sentiment being the
\* positive-sentiment probability; the job description is flagged with
\* "ninja" and nothing else, and the CV is flagged with nothing.
C15_ScenarioCountFour ==
    LET output_csv == PersonaAgentArgs(AGENTS_DIR, hard).output_csv
        jd_output == BiasAgentArgs(AGENTS_DIR, hard).jd_output
        cv_output == BiasAgentArgs(AGENTS_DIR, hard).cv_output
        s == Sentiment(SCENARIO_CV)
        positive == IF s.label = "POSITIVE" THEN s.score ELSE 0
    IN  /\ output_csv \in DOMAIN fs =>
              \A row \in fs[output_csv].rows :
                  row["cv_text_preview"] = SCENARIO_CV
                  => 10 * row["persona_fit_score"] = 7 * positive + 3 * 20000
        /\ cv_output \in DOMAIN fs =>
              /\ \A row \in fs[cv_output].rows :
                    row["cv_text_preview"] = SCENARIO_CV
                    => row["cv_bias_flags"] = <<"[", "]">>
              /\ \A k \in 1..Len(fs[jd_output].rows) :
                    fs[jd_output].rows[k]["optimized_jd"] = SCENARIO_JD
                    => fs[jd_output].rows[k]["jd_bias_flags"]
                           = <<"[","'","n","i","n","j","a","'","]">>

\* the bias agent and the persona agent have processed the worked example
C15_Witness ==
    LET output_csv == PersonaAgentArgs(AGENTS_DIR, hard).output_csv
        jd_output == BiasAgentArgs(AGENTS_DIR, hard).jd_output
    IN  /\ output_csv \in DOMAIN fs
        /\ \E row \in fs[output_csv].rows :
              /\ row["cv_text_preview"] = SCENARIO_CV
              /\ row["persona_fit_score"] > 0
        /\ fs[jd_output].rows[1]["optimized_jd"] = SCENARIO_JD

-----------------------------------------------------------------------------
(* Properties of the tables                                                *)

\* C16 (as stated): every stage that has exited with code 0 wrote a table
\* whose columns are those of the table it read plus its own new columns
\* (the select stage has none), every cell of the table read being kept:
\* no column is dropped, renamed or overwritten.  The grade stage, which
\* makes the candidate table, is left out.
C16_AppendOnly ==
    LET new == [i \in 1..7 |->
                   CASE i = 1 -> {"optimized_jd", "grade_level", "extracted_entities"}
                     [] i = 3 -> {"cv_bias_flags", "cv_anonymized"}
                     [] i = 4 -> {"persona_fit_score"}
                     [] i = 5 -> {"explanation"}
                     [] i = 6 -> {"composite_score", "feedback_adjustment",
                                  "updated_score"}
                     [] OTHER -> {}]
        input == [i \in 1..7 |->
                   CASE i = 1 -> "Dataset/job_description.csv"
                     [] i = 3 -> "cv_grading_results.csv"
                     [] i = 4 -> "cv_bias_fairness.csv"
                     [] i = 5 -> "persona_fit_results.csv"
                     [] i = 6 -> "explainability_results.csv"
                     [] i = 7 -> "feedback_adjusted_results.csv"
                     [] OTHER -> ""]
        output == [i \in 1..7 |->
                   CASE i = 1 -> "optimized_jds.csv"
                     [] i = 3 -> "cv_bias_fairness.csv"
                     [] i = 4 -> "persona_fit_results.csv"
                     [] i = 5 -> "explainability_results.csv"
                     [] i = 6 -> "feedback_adjusted_results.csv"
                     [] i = 7 -> "final_selected_candidates.csv"
                     [] OTHER -> ""]
        Cut(row, cols) == [c \in cols |-> row[c]]
        Kept(a, b, i) ==
            /\ b.cols = a.cols \cup new[i]
            /\ IF i = 1
               THEN /\ Len(b.rows) = Len(a.rows)
                    /\ \A k \in 1..Len(a.rows) : Cut(b.rows[k], a.cols) = a.rows[k]
               ELSE /\ \A row \in b.rows : Cut(row, a.cols) \in a.rows
                    /\ i # 7 => Cardinality(b.rows) = Cardinality(a.rows)
    IN  \A r \in Runs :
            \A k \in 1..Len(hist[r].io) :
                LET e == hist[r].io[k]
                IN  (e.code = 0 /\ e.i # 2) =>
                        \A a \in e.reads, b \in e.writes :
                            ( /\ a[2] = input[e.i] /\ b[2] = output[e.i]
                              /\ a \in DOMAIN fs /\ b \in DOMAIN fs )
                            => Kept(fs[a], fs[b], e.i)

\* C16 (amended): the stages bias-check, persona-fit, explain and
\* feedback-adjust write the candidate table they read with their own new
\* columns added and every cell read kept; the optimize stage keeps the
\* columns Job Title and Job Description and adds its three, dropping any
\* other column of the job-description table, and bias-check adds two
\* columns to that table; the select stage writes the twelve columns of
\* the store: candidate_filename renamed to candidate_id, candidate_name
\* added empty, and the other columns and their cells kept.
C16_AppendOnlyButSelect ==
    LET new == [i \in 3..6 |->
                   CASE i = 3 -> {"cv_bias_flags", "cv_anonymized"}
                     [] i = 4 -> {"persona_fit_score"}
                     [] i = 5 -> {"explanation"}
                     [] i = 6 -> {"composite_score", "feedback_adjustment",
                                  "updated_score"}]
        input == [i \in 3..7 |->
                   CASE i = 3 -> "cv_grading_results.csv"
                     [] i = 4 -> "cv_bias_fairness.csv"
                     [] i = 5 -> "persona_fit_results.csv"
                     [] i = 6 -> "explainability_results.csv"
                     [] i = 7 -> "feedback_adjusted_results.csv"]
        output == [i \in 3..7 |->
                   CASE i = 3 -> "cv_bias_fairness.csv"
                     [] i = 4 -> "persona_fit_results.csv"
                     [] i = 5 -> "explainability_results.csv"
                     [] i = 6 -> "feedback_adjusted_results.csv"
                     [] i = 7 -> "final_selected_candidates.csv"]
        Cut(row, cols) == [c \in cols |-> row[c]]
        Appended(a, b, i) ==
            /\ b.cols = a.cols \cup new[i]
            /\ a.cols \cap new[i] = {}
            /\ \A row \in b.rows : Cut(row, a.cols) \in a.rows
            /\ Cardinality(b.rows) = Cardinality(a.rows)
        Optimized(a, b) ==
            /\ b.cols = {"Job Title", "Job Description", "optimized_jd", "grade_level",
                         "extracted_entities"}
            /\ Len(b.rows) = Len(a.rows)
            /\ \A k \in 1..Len(a.rows) :
                  Cut(b.rows[k], {"Job Title", "Job Description"})
                      = Cut(a.rows[k], {"Job Title", "Job Description"})
        JdFlagged(a, b) ==
            /\ b.cols = a.cols \cup {"jd_bias_flags", "jd_anonymized"}
            /\ Len(b.rows) = Len(a.rows)
            /\ \A k \in 1..Len(a.rows) : Cut(b.rows[k], a.cols) = a.rows[k]
        Selected(a, b) ==
            LET kept == a.cols \ {"candidate_filename"}
            IN  /\ "candidate_filename" \in a.cols
                /\ b.cols = kept \cup {"candidate_id", "candidate_name"}
                /\ "candidate_filename" \notin b.cols
                /\ \A row \in b.rows :
                      /\ row["candidate_name"] = NaN
                      /\ \E old \in a.rows :
                            /\ row["candidate_id"] = old["candidate_filename"]
                            /\ Cut(row, kept) = Cut(old, kept)
        Named(a, b, in, out) ==
            a[2] = in /\ b[2] = out /\ a \in DOMAIN fs /\ b \in DOMAIN fs
    IN  \A r \in Runs :
            \A k \in 1..Len(hist[r].io) :
                LET e == hist[r].io[k]
                IN  e.code = 0 =>
                        \A a \in e.reads, b \in e.writes :
                            /\ (e.i \in 3..6 /\ Named(a, b, input[e.i], output[e.i]))
                                   => Appended(fs[a], fs[b], e.i)
                            /\ (e.i = 1 /\ Named(a, b, "Dataset/job_description.csv",
                                                 "optimized_jds.csv"))
                                   => Optimized(fs[a], fs[b])
                            /\ (e.i = 3 /\ Named(a, b, "optimized_jds.csv",
                                                 "jd_bias_fairness.csv"))
                                   => JdFlagged(fs[a], fs[b])
                            /\ (e.i = 7 /\ Named(a, b, input[7], output[7]))
                                   => Selected(fs[a], fs[b])

\* a supervisor run on a job-description table with a third column has
\* completed its seven stages and selected a candidate
C16_Witness ==
    \E r \in Runs :
        /\ sup[r].pc = "exit0"
        /\ Len(hist[r].io) = 7
        /\ \E a \in hist[r].io[1].reads : a \in DOMAIN fs /\ "Location" \in fs[a].cols
        /\ \E b \in hist[r].io[7].writes :
              /\ b[2] = "final_selected_candidates.csv"
              /\ b \in DOMAIN fs /\ fs[b].rows # {}

-----------------------------------------------------------------------------
(* Properties of the workspace                                             *)

\* C17: when one of the eight agent files is absent from the agents
\* directory, a request that has gone through setup_workspace goes straight
\* to leaving the with-block with the result None, and no supervisor and
\* no stage has been started for it.
C17_MissingAsset ==
    \A r \in Runs :
        ( /\ kind[r] = "dash"
          /\ pc[r] \notin {"idle", "setup"}
          /\ \E a \in AGENT_FILES : a \notin scripts[AGENTS_DIR] )
        => /\ pc[r] \in {"cleanup", "returned"}
           /\ result[r] = None
           /\ sup[r] = NoSup
           /\ hist[r].started = <<>>
           /\ \A p \in procs : p.run # r

\* a request has returned on a machine that has supervisor.py and lacks
\* another agent file
C17_Witness ==
    \E r \in Runs :
        /\ kind[r] = "dash" /\ pc[r] = "returned"
        /\ "supervisor.py" \in scripts[AGENTS_DIR]
        /\ "persona_agent.py" \notin scripts[AGENTS_DIR]
        /\ req[r].uploaded_files # {}

-----------------------------------------------------------------------------
(* Properties of the store                                                 *)

\* C18: when sql_agent.py has just exited with code 0, the store holds
\* exactly the rows of feedback_adjusted_results.csv, each under its
\* candidate_id: every row of the table, and no row of the store an
\* earlier run left; when it has exited with another code the store it
\* created holds no row.
C18_StoreRebuilt ==
    LET db == <<AGENTS_DIR, "memory.db">>
        candidate_csv == <<AGENTS_DIR, "feedback_adjusted_results.csv">>
        n == Len(hist[1].io)
    IN  (procs = {} /\ n > 0 /\ hist[1].io[n].i = 7 /\ db \in hist[1].io[n].writes)
        => IF hist[1].io[n].code = 0
           THEN /\ Cardinality(fs[db].rows) = Cardinality(fs[candidate_csv].rows)
                /\ \A row \in fs[candidate_csv].rows :
                      \E kept \in fs[db].rows :
                          /\ kept["candidate_id"] = row["candidate_filename"]
                          /\ \A c \in DOMAIN row \ {"candidate_filename"} :
                                kept[c] = row[c]
           ELSE fs[db].rows = {}

\* sql_agent.py has exited with code 0 twice, the first time on the table
\* the earlier run left and then on the table of the new run, which lacks
\* a candidate the store held at the start
C18_Witness ==
    LET db == <<AGENTS_DIR, "memory.db">>
        n == Len(hist[1].io)
    IN  /\ procs = {} /\ n = 3
        /\ hist[1].io[1].i = 7 /\ hist[1].io[1].code = 0
        /\ hist[1].io[2].i = 6 /\ hist[1].io[2].code = 0
        /\ hist[1].io[3].i = 7 /\ hist[1].io[3].code = 0
        /\ fs[db].rows # {}
        /\ \E t \in DOMAIN hist[1].selected :
              \E old \in hist[1].selected[t].stored :
                  \A row \in fs[db].rows : row["candidate_id"] # old["candidate_id"]

-----------------------------------------------------------------------------
(* Properties of the grade stage                                           *)

\* C19: whatever files the CV folder holds, the grade stage exits with
\* code 0; a file that is neither .pdf nor .txt, or cannot be read, or has
\* no text but blanks has no row in cv_grading_results.csv, and every other
\* file of the folder has exactly one row, under its file name.
C19_PerDocumentRecovery ==
    LET cv_folder == <<AGENTS_DIR, "Dataset/CVs1">>
        output_csv == <<AGENTS_DIR, "cv_grading_results.csv">>
        Extension(name) == Lower(SubSeq(name, Len(name) - 3, Len(name)))
        Good(name, file) ==
            /\ Extension(name) \in {<<".","p","d","f">>, <<".","t","x","t">>}
            /\ file.readable
            /\ \E k \in 1..Len(file.text) : file.text[k] # " "
    IN  (hist[1].io # <<>> /\ hist[1].io[1].i = 2)
        => /\ hist[1].io[1].code = 0
           /\ output_csv \in DOMAIN fs
           /\ \A name \in DOMAIN fs[cv_folder].files :
                 Cardinality({row \in fs[output_csv].rows :
                                 row["candidate_filename"] = name})
                     = (IF Good(name, fs[cv_folder].files[name]) THEN 1 ELSE 0)
           /\ \A row \in fs[output_csv].rows :
                 row["candidate_filename"] \in DOMAIN fs[cv_folder].files

\* the stage has run on a folder with an unsupported file, a text file and
\* a PDF that cannot be read, an empty PDF, a text file of blanks, and two
\* good files
C19_Witness ==
    LET cv_folder == <<AGENTS_DIR, "Dataset/CVs1">>
        output_csv == <<AGENTS_DIR, "cv_grading_results.csv">>
    IN  /\ hist[1].io # <<>> /\ hist[1].io[1].i = 2
        /\ Cardinality(DOMAIN fs[cv_folder].files) = 7
        /\ Cardinality(fs[output_csv].rows) = 2

-----------------------------------------------------------------------------
(* Properties of the anonymization                                         *)

\* a call in which the extractor reported no PERSON entity returned its
\* text unchanged
PersonFreeUnchanged ==
    ( /\ req[1].passes >= 1
      /\ \A k \in 1..Len(req[1].ents) : req[1].ents[k].label_ # "PERSON" )
    => result[1].text = req[1].text

\* every "[REDACTED]" of the text given to a second call stands in the
\* text returned, at its place moved by the replacements to its left
MarkersKept ==
    LET text == req[1].text
        ents == req[1].ents
        marker == <<"[","R","E","D","A","C","T","E","D","]">>
        IsMarkerAt(t, k) ==
            /\ k >= 1 /\ k + 9 <= Len(t)
            /\ SubSeq(t, k, k + 9) = marker
        Shift(k) ==
            SumSeq([j \in 1..Len(ents) |->
                       IF ents[j].label_ = "PERSON" /\ ents[j].end_char <= k - 1
                       THEN 10 - (ents[j].end_char - ents[j].start_char)
                       ELSE 0])
    IN  req[1].passes >= 2
        => \A k \in 1..Len(text) :
              IsMarkerAt(text, k) => IsMarkerAt(result[1].text, k + Shift(k))

\* C20: anonymize_text leaves a text in which the extractor finds no PERSON
\* entity unchanged, and a second call on the text it returned leaves every
\* "[REDACTED]" of that text as it is, whatever entities the extractor
\* reports.
C20_Anonymize == PersonFreeUnchanged /\ MarkersKept

-----------------------------------------------------------------------------
(* Properties of the stages                                                *)

\* C21: a stage that has failed on a table it read which lacks a column
\* the stage requires has exited without a model having been loaded.
C21_ValidateFirst ==
    LET required(i, name) ==
            CASE i = 1 -> {"Job Title", "Job Description"}
              [] i = 2 -> {"optimized_jd"}
              [] i = 3 /\ name = "optimized_jds.csv" -> {"optimized_jd"}
              [] i = 3 /\ name # "optimized_jds.csv" -> {"cv_text_preview"}
              [] i = 4 -> {"cv_text_preview"}
              [] i = 5 -> {"candidate_filename", "grade_score", "persona_fit_score"}
              [] i = 6 -> {"grade_score", "persona_fit_score", "explanation"}
              [] OTHER -> {}
    IN  \A r \in Runs :
            \A k \in 1..Len(hist[r].io) :
                LET e == hist[r].io[k]
                IN  ( /\ e.code # 0
                      /\ \E a \in e.reads :
                            /\ a \in DOMAIN fs
                            /\ fs[a].kind = "csv"
                            /\ fs[a].cols # {}
                            /\ ~(required(e.i, a[2]) \subseteq fs[a].cols) )
                    => ~e.loaded

-----------------------------------------------------------------------------
(* Properties of two select stages on one store                            *)

\* the select stage of run r has exited
SelectExited(r) == \E k \in 1..Len(hist[r].io) : hist[r].io[k].i = 7

\* the select stage of run r has exited with code 0 and its selection
\* lacks a row it inserted whose updated_score reaches the threshold
RaceOmits(r) ==
    \E t \in DOMAIN hist[r].selected :
        \E row \in hist[r].ingested :
            row["updated_score"] >= t /\ row \notin hist[r].selected[t].rows

\* its selection has a row it did not insert
RaceIncludes(r) ==
    \E t \in DOMAIN hist[r].selected :
        \E row \in hist[r].selected[t].rows : row \notin hist[r].ingested

\* it has exited with another code: the insert failed on the primary key
RaceDuplicate(r) ==
    \E k \in 1..Len(hist[r].io) : hist[r].io[k].i = 7 /\ hist[r].io[k].code # 0

\* C22: a select stage omits rows it inserted, includes rows it did not
\* insert, or fails on a duplicate candidate_id only when the select stage
\* of the other run was alive on the same store while it ran; run alone,
\* it selects exactly the rows it inserted that reach the threshold.
C22_RaceNeedsOverlap ==
    \A r \in Runs :
        (SelectExited(r) /\ (RaceOmits(r) \/ RaceIncludes(r) \/ RaceDuplicate(r)))
        => hist[r].overlapped

\* two select stages have overlapped and one of them has selected a row
\* that the other inserted
C22_Witness ==
    \E r \in Runs : SelectExited(r) /\ hist[r].overlapped /\ RaceIncludes(r)

-----------------------------------------------------------------------------
(* Properties of the threshold                                             *)

RECURSIVE ReplacedAtOnce(_, _, _)
\* text from offset from on, with every PERSON span of ents (in document
\* order, offsets of the original text) replaced by "[REDACTED]"
ReplacedAtOnce(text, ents, from) ==
    IF ents = <<>> THEN SubSeq(text, from + 1, Len(text))
    ELSE LET ent == Head(ents)
         IN  SubSeq(text, from + 1, ent.start_char)
             \o (IF ent.label_ = "PERSON"
                 THEN <<"[","R","E","D","A","C","T","E","D","]">>
                 ELSE SubSeq(text, ent.start_char + 1, ent.end_char))
             \o ReplacedAtOnce(text, Tail(ents), ent.end_char)

\* C24: for the text and the non-overlapping entity spans of a call, what
\* anonymize_text returned is the text with every PERSON span replaced by
\* "[REDACTED]" at once, offsets taken in the text given: the characters
\* outside the PERSON spans are kept, in order.
C24_SimultaneousReplacement ==
    req[1].passes >= 1
    => result[1].text = ReplacedAtOnce(req[1].text, req[1].ents, 0)

\* a call with two PERSON spans, the first of them not ten characters long
C24_Witness ==
    /\ req[1].passes >= 1
    /\ Len(req[1].ents) = 2
    /\ req[1].ents[1].label_ = "PERSON" /\ req[1].ents[2].label_ = "PERSON"
    /\ req[1].ents[1].end_char - req[1].ents[1].start_char # 10
    /\ req[1].ents[2].end_char < Len(req[1].text)

-----------------------------------------------------------------------------
(* Properties of the readability grade                                     *)

\* the letters of a token, in order
LettersOf(word) ==
    SelectSeq(word, LAMBDA c : c \in {"a", "e", "t", "A", "E", "T"})

\* the number of places of w where a run of vowels begins
VowelClusters(w) ==
    Cardinality({i \in 1..Len(w) :
                    /\ w[i] \in {"a", "e", "A", "E"}
                    /\ i = 1 \/ w[i - 1] \notin {"a", "e", "A", "E"}})

\* C25 (as stated): for every token of the text count_syllables returns at
\* least 1, and this is the number of vowel clusters, minus one when the
\* word ends in "e" and the number exceeds 1 (1 when that is 0).
C25_FloorOne ==
    result[1].kind = "int"
    => LET w == LettersOf(result[1].word)
           n == VowelClusters(w)
           m == IF w # <<>> /\ w[Len(w)] \in {"e", "E"} /\ n > 1 THEN n - 1 ELSE n
       IN  /\ result[1].value >= 1
           /\ result[1].value = (IF m > 0 THEN m ELSE 1)

\* C25 (amended): for a token with a letter a-z in it count_syllables
\* returns at least 1: the number of vowel clusters of its letters, minus
\* one when the last letter is "e" and the number exceeds 1, and 1 when
\* that is 0; for a token of digits and underscores only it returns 0.
C25_FloorOneForLetters ==
    result[1].kind = "int"
    => LET w == LettersOf(result[1].word)
           n == VowelClusters(w)
           m == IF w # <<>> /\ w[Len(w)] \in {"e", "E"} /\ n > 1 THEN n - 1 ELSE n
       IN  IF w = <<>> THEN result[1].value = 0
           ELSE /\ result[1].value >= 1
                /\ result[1].value = (IF m > 0 THEN m ELSE 1)

\* count_syllables has been called on the token "1_" of a text that has
\* another token
C25_Witness ==
    /\ result[1].kind = "int"
    /\ result[1].word = <<"1", "_">>
    /\ Len(FindWords(req[1].text)) = 2

-----------------------------------------------------------------------------
(* Properties of termination                                               *)

\* no stage of run r has been started twice, none after a failed one, and
\* at most seven have been executed
NoRetry(r) ==
    /\ Len(hist[r].started) <= 7
    /\ Len(hist[r].io) <= 7
    /\ \A j, k \in 1..Len(hist[r].started) :
          j # k => hist[r].started[j] # hist[r].started[k]
    /\ \A k \in 1..Len(hist[r].io) :
          hist[r].io[k].code # 0 => Len(hist[r].started) = k

\* while the supervisor of run r waits for a stage, it moves on, and the
\* run starts anything, only in the step in which that stage exits
BlockedUntilReturn(r) ==
    (sup[r].pc = "wait" /\ (sup'[r] # sup[r] \/ hist'[r].started # hist[r].started))
    => \E p \in procs : p.run = r /\ p.i = sup[r].i /\ procs' = procs \ {p}

\* C26: in a run each stage is started at most once and a failed stage is
\* never run again; a supervisor that waits for a stage does nothing until
\* that stage returns, so that no later stage starts while it has not; and
\* when every started stage returns, the run ends, completed or failed,
\* after at most seven stage executions.
C26_NoRetryTerminates ==
    /\ [](\A r \in Runs : NoRetry(r))
    /\ [][\A r \in Runs : BlockedUntilReturn(r)]_vars
    /\ \A r \in Runs :
          (sup[r].pc \in {"loop", "wait", "final"}) ~> (sup[r].pc \in {"exit0", "exit1"})

\* a run has ended failed at its fourth stage, three stages having
\* succeeded
C26_Witness ==
    \E r \in Runs :
        /\ sup[r].pc = "exit1"
        /\ hist[r].started = <<1, 2, 3, 4>>
        /\ Len(hist[r].io) = 4

-----------------------------------------------------------------------------
(* Properties of the feedback rule in a pipeline run                       *)

\* the tables the feedback stage of run r has written (a request's
\* workspace is removed with its tables when the request ends)
FeedbackWritten(r) ==
    UNION { hist[r].io[k].writes :
              k \in {j \in 1..Len(hist[r].io) :
                        hist[r].io[j].i = 6 /\ hist[r].io[j].code = 0} }

\* the file name of the row holds "strong match", whatever the case
StrongName(row) == Contains(Lower(row["candidate_filename"]), STRONG_MATCH)

\* C27: in a pipeline run the explanation of a candidate is built from its
\* file name and fixed wording alone, so in the table the feedback stage
\* writes the feedback_adjustment of a row is 0.05 exactly when its file
\* name contains "strong match" in any case, and -0.02 for every other row,
\* whatever its grade_score and persona_fit_score.
C27_FileNameDecides ==
    \A r \in Runs : \A p \in FeedbackWritten(r) :
        p \in DOMAIN fs =>
            /\ "candidate_filename" \in fs[p].cols
            /\ \A row \in fs[p].rows :
                  /\ StrongName(row) => row["feedback_adjustment"] = ADJUST_UP
                  /\ ~StrongName(row) => row["feedback_adjustment"] = ADJUST_DOWN

\* a run has adjusted a candidate named "Strong Match.pdf" upwards, though
\* its grade_score is the lower one, and another candidate downwards
C27_Witness ==
    \E r \in Runs : \E p \in FeedbackWritten(r) \cap DOMAIN fs :
        \E a, b \in fs[p].rows :
            /\ a["candidate_filename"] = FileS.name
            /\ a["feedback_adjustment"] = ADJUST_UP
            /\ ~StrongName(b)
            /\ b["feedback_adjustment"] = ADJUST_DOWN
            /\ b["grade_score"] > a["grade_score"]

-----------------------------------------------------------------------------
(* Properties of the working directory                                     *)

\* request r leaves its finally clause with the working directory it found
\* at entry
RestoredAtExit(r) ==
    (pc[r] = "finally" /\ pc'[r] # "finally") => cwd' = original_dir[r]

\* request r, failing in setup_workspace, does not change the working
\* directory
SetupFailureKeeps(r) ==
    (pc[r] = "setup" /\ pc'[r] = "cleanup") => cwd' = cwd

\* C28: process_candidates leaves the working directory of the process
\* unchanged: on every exit path taken after os.chdir(temp_dir) the
\* directory is set back to its value at entry before the function returns,
\* and a request that fails in setup_workspace never changes it.
C28_WorkingDirectoryRestored ==
    [][\A r \in Runs : RestoredAtExit(r) /\ SetupFailureKeeps(r)]_vars

-----------------------------------------------------------------------------
(* Properties of the primary key                                           *)

\* the rows have pairwise distinct values in column c
DistinctIn(rows, c) == \A a, b \in rows : a[c] = b[c] => a = b

\* the select stage p, about to insert a table it can read, will not be
\* refused on the primary key: the candidate_id values it inserts are
\* pairwise distinct and none is in the store
PrimaryKeyFree(p) ==
    LET db == SqlAgentArgs(p.cwd, hard).db_path
        candidate_csv == SqlAgentArgs(p.cwd, hard).candidate_csv
    IN  (CanReadCsv(fs, candidate_csv) /\ db \in DOMAIN fs) =>
            LET new == {StoreRow(row) : row \in fs[candidate_csv].rows}
            IN  /\ DistinctIn(new, "candidate_id")
                /\ \A a \in new, b \in fs[db].rows :
                      a["candidate_id"] # b["candidate_id"]

\* C29: within a run the candidate_id values of the rows the select stage
\* inserts are pairwise distinct (file names of one CV directory), so the
\* stage never fails on the primary key candidate_id; and the candidates a
\* request returns are pairwise distinct, whatever was uploaded.
C29_PrimaryKeyNeverFails ==
    /\ \A p \in procs :
          (p.i = Len(agents) /\ p.pc = "insert") => PrimaryKeyFree(p)
    /\ \A r \in Runs :
          result[r].kind = "list" =>
              \A j, k \in 1..Len(result[r].rows) :
                  j # k => result[r].rows[j].candidate # result[r].rows[k].candidate

-----------------------------------------------------------------------------
(* Properties of the preview                                               *)

\* the CV files of the agents directory, and the text cv_grader.py gets
\* from the file a row is named after
CvFiles == fs[<<AGENTS_DIR, CV_FOLDER>>].files
FullText(row) ==
    CvText(row["candidate_filename"], CvFiles[row["candidate_filename"]])

\* the rows of the persona table of the agents directory, which has the
\* columns of the grading, bias and persona stages
PersonaRows ==
    LET p == <<AGENTS_DIR, PERSONA_FIT_RESULTS>>
    IN  IF p \in DOMAIN fs /\ <<AGENTS_DIR, CV_FOLDER>> \in DOMAIN fs
        THEN {row \in fs[p].rows : row["candidate_filename"] \in DOMAIN CvFiles}
        ELSE {}

\* C30: two CVs whose texts agree on their first 200 characters get the
\* same cv_bias_flags, cv_anonymized and persona_fit_score, whatever
\* follows, while the grade_score of a CV is the similarity of its whole
\* text to the job description.
C30_PreviewOnly ==
    /\ \A a, b \in PersonaRows :
          Prefix(FullText(a), PREVIEW_LEN) = Prefix(FullText(b), PREVIEW_LEN)
          => /\ a["cv_bias_flags"] = b["cv_bias_flags"]
             /\ a["cv_anonymized"] = b["cv_anonymized"]
             /\ a["persona_fit_score"] = b["persona_fit_score"]
    /\ \A a \in PersonaRows :
          \E jd \in {JDSimple, JDRephrased, SCENARIO_JD} :
              a["grade_score"] = Similarity(FullText(a), jd)

\* two CVs that agree on their first 200 characters, one of them with a
\* biased term and a soft-skill keyword after them, have got the same
\* flags and persona_fit_score and different grades, and a third CV with
\* a biased term among its first 200 characters has got other flags
C30_Witness ==
    \E a, b, c \in PersonaRows :
        /\ Len(FullText(a)) > PREVIEW_LEN
        /\ Prefix(FullText(a), PREVIEW_LEN) = Prefix(FullText(b), PREVIEW_LEN)
        /\ detect_bias(FullText(a)) # {} /\ detect_bias(FullText(b)) = {}
        /\ keyword_count(FullText(a)) > keyword_count(FullText(b))
        /\ a["cv_bias_flags"] = b["cv_bias_flags"]
        /\ a["persona_fit_score"] = b["persona_fit_score"]
        /\ a["grade_score"] # b["grade_score"]
        /\ c["cv_bias_flags"] # a["cv_bias_flags"]

=============================================================================
